---- MODULE Spec2Model ----
(***************************************************************************)
(* Notification scheduler of the outage-schedule backend                   *)
(* (src/app/scheduler.py): the schedule poll update_schedules, the dynamic *)
(* APScheduler jobs it arms, the timer-fire path send_queue_notification   *)
(* with its queue_notifications ledger, and send_outage_notification for   *)
(* discrete outage records.                                                *)
(*                                                                         *)
(* Time is counted in minutes from 00:00 of date 0 (Kyiv time).  An hour h *)
(* of date d is the instant d*24*60 + h*60.                                *)
(***************************************************************************)
EXTENDS Integers, FiniteSets, Sequences, TLC

\* ------------------------------------------------------------------ bounds
\* number of successive schedule images the site publishes for a date
NumImages == 3
\* number of executor threads that run fired jobs concurrently
NumWorkers == 2
\* number of discrete outage records
NumOutages == 2
\* number of regions (REM) whose outage page is polled
NumRegions == 2
\* longest list of intervals handed to merge_overlapping_intervals
MaxIntervals == 3

\* ------------------------------------------------------ program constants
\* the push goes out 10 minutes before the outage starts
NOTIFY_MINUTES == 10
\* a schedule row has 24 hourly cells; an interval ending at 24 ends at midnight
HOURS == 24

Dates == {0}
SUBQUEUES == {"3.1", "6.2"}
PollThread == 0
Workers == 1..NumWorkers
Threads == {PollThread} \cup Workers

\* The intervals a published image may show, in the order in which a parsed
\* schedule is walked (queue rows top down, outages before possible).  Image i
\* shows Cells[k] iff bit k-1 of i is set, so successive images add, drop and
\* restore intervals.
Cells ==
  << [queue |-> "3.1", start |-> 14, end |-> 16, possible |-> FALSE],
     [queue |-> "3.1", start |-> 20, end |-> 24, possible |-> FALSE],
     [queue |-> "6.2", start |-> 14, end |-> 15, possible |-> TRUE] >>

ImageCells(i) ==
  {Cells[k] : k \in {j \in 1..Len(Cells) : (i \div (2 ^ (j - 1))) % 2 = 1}}

\* The power-off windows a free-text announcement may name.
AnnouncedWindows == {[queue |-> "3.1", start |-> 14, end |-> 16]}

\* The instants at which the model looks at the system, per day.
DayInstants == {780, 830, 1190, 1380}

DayStart(d) == d * HOURS * 60
Instants == {DayStart(d) + m : d \in Dates, m \in DayInstants}
              \cup {DayStart(2) + 60}
Today(t) == t \div (HOURS * 60)

\* the B - R difference above which a cell is an outage cell
B_R_THRESHOLD == 38
\* the channel value below which a cell counts as dark
BRIGHTNESS == 230

\* The hours the interval arithmetic is exercised on, and the intervals over
\* them: an interval is a pair <<start, end>>.  A schedule holds intervals
\* with start < end; an announcement may name any pair of hours.
MergeHours == 0..3
AnyIntervals == MergeHours \X MergeHours
ScheduleIntervals == {iv \in AnyIntervals : iv[1] < iv[2]}
Lists(S, n) == UNION {[1..m -> S] : m \in 0..n}

\* --------------------------------------------------------------- the state
VARIABLES
  now,                 \* wall clock
  site,                \* site[d]: image published for date d, 0 = none
  schedules,           \* table schedules: date -> row
  queue_notifications, \* table queue_notifications: key -> number of rows
  jobs,                \* APScheduler job store: queue_<date>_<queue>_<hour>_<kind>
  annJobs,             \* APScheduler job store: queue_announcement_... jobs
  execs,               \* thread -> running execution of send_queue_notification
  poll,                \* position of update_schedules in the poll thread
  recovered,           \* update_schedules has returned since the process started
  delivered,           \* key -> calls of send_to_queue_users made for it
  failed,              \* keys whose delivery raised or reached no device
  outages,             \* tables emergency_outages / planned_outages: id -> row
  outageJobs,          \* APScheduler job store: <type>_<id> jobs
  outageExecs,         \* thread -> running execution of send_outage_notification
  pushed,              \* id -> executions that sent pushes for the record
  page_hashes,         \* page_cache._page_hashes: page key -> hash of the page
  lastContent,         \* page key -> content last passed to has_page_changed
  lastCall,            \* the last run of parse_outages and what it returned
  active_outages,      \* rows of emergency_outages with is_active = True
  intervals,           \* argument of the last merge_overlapping_intervals call
  merged,              \* what that call returned
  parsed_data,         \* parsed_data of today's schedule: queue -> its periods
  announcement_outages,\* table announcement_outages: the rows of today, in id order
  applied,             \* the power-off windows handed to the store, in order
  query,               \* the last batch-status query and the rows it read
  status,              \* the AddressStatus answered to it
  outage_status,       \* the OutageStatusResponse of the last single-address query
  cell,                \* average colour of the last cell classified
  colour,              \* what detect_cell_color returned for it
  image,               \* downloaded schedule image: queue row -> hour -> cell crop
  schedule_data,       \* how parse_schedule_from_image ended and what it returned
  no_schedule_state,   \* the row of no_schedule_notification_state
  no_schedule_write,   \* who wrote that row last and what enabled was before; the
                       \* row starts as reset_no_schedule_state leaves it
  tomorrow_check,      \* the last run of check_tomorrow_schedule_and_notify
  last_announcement_hashes, \* content hashes held in memory (the announcements followed)
  last_sent_paragraphs,     \* paragraph hashes held in memory (the paragraphs followed)
  other_hashes,        \* number of content hashes of other announcements in memory
  other_paragraphs,    \* number of paragraph hashes of other announcements in memory
  sent_announcement_hashes, \* table sent_announcement_hashes: <<type, hash>> followed
  sent_others,         \* number of other announcements recorded in that table
  announcement_pushes, \* content hash -> delivered pushes of the announcement
  paragraph_pushes,    \* paragraph hash -> delivered pushes that carried the paragraph
  planned_outages,     \* rows of planned_outages with is_active = True
  notification_sent_at,\* the rows among them whose notification_sent_at is set
  lastPlanned          \* the last run of update_planned_outages

outageVars == <<outages, outageJobs, outageExecs, pushed>>
cacheVars == <<page_hashes, lastContent, lastCall, active_outages>>
statusVars == <<intervals, merged, parsed_data, announcement_outages, applied,
                query, status, outage_status>>
cellVars == <<cell, colour, image, schedule_data>>
stateVars == <<no_schedule_state, no_schedule_write, tomorrow_check>>
hashVars == <<last_announcement_hashes, last_sent_paragraphs, other_hashes,
              other_paragraphs, sent_announcement_hashes, sent_others,
              announcement_pushes, paragraph_pushes>>
plannedVars == <<planned_outages, notification_sent_at, lastPlanned>>
notifyVars == <<stateVars, hashVars, plannedVars>>
engineVars == <<cacheVars, statusVars, cellVars, notifyVars>>

vars == <<now, site, schedules, queue_notifications, jobs, annJobs, execs, poll,
          recovered, delivered, failed, outageVars, engineVars>>

Keys == Dates \X SUBQUEUES \X (0..(HOURS - 1))
KeyOf(x) == <<x.date, x.queue, x.start>>

\* parsed_data of a schedule: the queue rows it has and their intervals
EmptyDict == [keys |-> {}, ivs |-> {}]
\* what the table schedules holds for a date: the active row that
\* get_schedule_by_date answers, and the number of active rows of the date
NoRow == [present |-> FALSE, hash |-> 0, isnull |-> TRUE, data |-> EmptyDict,
          rows |-> 0]

IdleExec == [pc |-> "idle", date |-> 0, queue |-> "", start |-> 0, end |-> 0,
             possible |-> FALSE, committed |-> FALSE, announcement |-> FALSE]
Outages == 1..NumOutages
NoOutage == [present |-> FALSE, notification_sent_at |-> {}]
IdleOutageExec == [pc |-> "idle", id |-> 0, current_time |-> 0]
\* the page keys outages_rem<rem_id>_type1, one for a region
Regions == 1..NumRegions
\* the empty dictionary
NoHashes == [k \in {} |-> 0]
NoCall == [key |-> 0, content |-> 0, outcome |-> "none", first |-> FALSE, changed |-> FALSE,
           result |-> "None", items |-> {}]
NoQuery == [queue |-> "", outages |-> <<>>, possible |-> <<>>, hour |-> 0,
            applied |-> <<>>]
NoStatus == [answered |-> FALSE, has_power |-> TRUE, user_intervals |-> <<>>,
             upcoming_outages |-> <<>>, until |-> {}]
\* no single-address status query yet
NoOutageStatus == [answered |-> FALSE, queue |-> "", hour |-> 0, schedule |-> NoRow,
                   has_power |-> TRUE, message |-> "none"]
NoCell == [empty |-> TRUE, b |-> 0, g |-> 0, r |-> 0]
\* no run of parse_schedule_from_image yet
NoScheduleData == [outcome |-> "none", data |-> NoHashes]
\* no run of update_planned_outages yet
NoPlanned == [result |-> "none", items |-> {}, new_outages_list |-> {},
              deactivated |-> {}]
\* NoScheduleNotificationState as it is created: enabled, no day counted.  A
\* missing row is created with these values by whoever reads the state first.
EnabledState == [enabled |-> TRUE, consecutive_days_without_schedule |-> 0]
\* The announcements followed: two content hashes; the first announcement has
\* paragraph 1, the second repeats it and adds paragraph 2.
AnnouncementHashes == {1, 2}
ParagraphHashes == {1, 2}
IdlePoll == [pc |-> "idle", todo |-> {}, snap |-> [d \in Dates |-> 0], date |-> 0,
             outcome |-> "none", parsed |-> EmptyDict, ivs |-> {}, current_time |-> 0,
             existing |-> FALSE, new_dates_added |-> {}]

\* Everything but the argument of a merge call, the schedule a status query
\* reads and the image a table parse works on, which SpecMerge, SpecStatus and
\* SpecTable draw themselves.
InitStores ==
  /\ queue_notifications = [k \in Keys |-> 0]
  /\ execs = [th \in Threads |-> IdleExec]
  /\ poll = IdlePoll
  /\ recovered = FALSE
  /\ delivered = [k \in Keys |-> 0]
  /\ failed = {}
  /\ outages = [id \in Outages |-> NoOutage]
  /\ outageExecs = [th \in Threads |-> IdleOutageExec]
  /\ pushed = [id \in Outages |-> 0]
  /\ page_hashes = NoHashes
  /\ lastContent = NoHashes
  /\ lastCall = NoCall
  /\ active_outages = {}
  /\ merged = <<>>
  /\ announcement_outages = <<>>
  /\ applied = <<>>
  /\ query = NoQuery
  /\ status = NoStatus
  /\ outage_status = NoOutageStatus
  /\ cell = NoCell
  /\ colour = "white"
  /\ schedule_data = NoScheduleData
  /\ no_schedule_state = EnabledState
  /\ no_schedule_write = [by |-> "reset", before |-> TRUE]
  /\ tomorrow_check = [date |-> -1, outcome |-> "none"]
  /\ last_announcement_hashes = {}
  /\ last_sent_paragraphs = {}
  /\ other_hashes = 0
  /\ other_paragraphs = 0
  /\ sent_announcement_hashes = {}
  /\ sent_others = 0
  /\ announcement_pushes = [h \in AnnouncementHashes |-> 0]
  /\ paragraph_pushes = [h \in ParagraphHashes |-> 0]
  /\ planned_outages = {}
  /\ notification_sent_at = {}
  /\ lastPlanned = NoPlanned

\* nothing but the jobs of start_scheduler is in the job store
NoTimers ==
  /\ jobs = {}
  /\ annJobs = {}
  /\ outageJobs = {}

\* The service starts at 13:00 of day 0 with an empty database; the site shows
\* the first image of every date.
InitClock ==
  /\ now = 780
  /\ site = [d \in Dates |-> 1]
  /\ schedules = [d \in Dates |-> NoRow]
  /\ NoTimers

Init ==
  /\ InitStores
  /\ InitClock
  /\ intervals = <<>>
  /\ parsed_data = NoHashes
  /\ image = NoHashes


\* ------------------------------------------- send_queue_notification steps
\* the dedup query: a ledger row for (date, queue, hour) exists
ExistingRow(rows, k) == rows[k] > 0

\* variant: an execution that finds the row present delivers all the same
AfterCheckDeliversAnyway(existing) == IF existing THEN "deliver" ELSE "insert"

\* where the execution goes after the dedup query
AfterCheck(existing) == IF existing THEN "idle" ELSE "insert"

\* variant: the index on (date, hour, queue) is not unique
NoUniqueIndex(rows, k) == FALSE

\* the unique index idx_queue_notification_unique rejects a second row
UniqueViolation(rows, k) == rows[k] > 0

\* variant: a failed delivery takes the ledger row back
LedgerRolledBack(rows, k, outcome) ==
  IF outcome = "sent" THEN rows ELSE [rows EXCEPT ![k] = 0]

\* the ledger after the delivery ended with `outcome`: the row was committed
\* before the delivery, and the rollback of the except branch undoes nothing
LedgerAfterDelivery(rows, k, outcome) == rows

DeliveryOutcomes == {"sent", "none", "raise"}

SendCheck(th) ==
  /\ execs[th].pc = "check"
  /\ LET next == AfterCheck(ExistingRow(queue_notifications, KeyOf(execs[th])))
     IN  execs' = [execs EXCEPT ![th] =
                     IF next = "idle" THEN IdleExec ELSE [@ EXCEPT !.pc = next]]
  /\ UNCHANGED <<now, site, schedules, queue_notifications, jobs, annJobs, poll,
                 recovered, delivered, failed>>
  /\ UNCHANGED outageVars
  /\ UNCHANGED engineVars

SendInsert(th) ==
  /\ execs[th].pc = "insert"
  /\ LET k == KeyOf(execs[th])
     IN  IF UniqueViolation(queue_notifications, k)
           THEN /\ execs' = [execs EXCEPT ![th] = [@ EXCEPT !.pc = "rollback"]]
                /\ UNCHANGED queue_notifications
           ELSE /\ queue_notifications' = [queue_notifications EXCEPT ![k] = @ + 1]
                /\ execs' = [execs EXCEPT ![th] =
                               [@ EXCEPT !.pc = "deliver", !.committed = TRUE]]
  /\ UNCHANGED <<now, site, schedules, jobs, annJobs, poll, recovered, delivered,
                 failed>>
  /\ UNCHANGED outageVars
  /\ UNCHANGED engineVars

\* the except branch after the IntegrityError of the commit: db.rollback(),
\* then the function returns
SendRollback(th) ==
  /\ execs[th].pc = "rollback"
  /\ execs' = [execs EXCEPT ![th] = IdleExec]
  /\ UNCHANGED <<now, site, schedules, queue_notifications, jobs, annJobs, poll,
                 recovered, delivered, failed>>
  /\ UNCHANGED outageVars
  /\ UNCHANGED engineVars

SendDeliver(th, outcome) ==
  /\ execs[th].pc = "deliver"
  /\ LET k == KeyOf(execs[th])
     IN  /\ delivered' = [delivered EXCEPT ![k] = @ + 1]
         /\ failed' = IF outcome = "sent" THEN failed ELSE failed \cup {k}
         /\ queue_notifications' = LedgerAfterDelivery(queue_notifications, k, outcome)
  /\ execs' = [execs EXCEPT ![th] = IdleExec]
  /\ UNCHANGED <<now, site, schedules, jobs, annJobs, poll, recovered>>
  /\ UNCHANGED outageVars
  /\ UNCHANGED engineVars

\* ------------------------------------------------------------ dynamic jobs
\* variant: the job is set to the start of the outage itself
NotifyTimeAtStart(d, start_hour) == DayStart(d) + start_hour * 60

NotifyTime(d, start_hour) == DayStart(d) + start_hour * 60 - NOTIFY_MINUTES

\* variant: hour 24 wraps to hour 0 of the schedule date
OutageEndWrapped(d, end_hour) == DayStart(d) + (end_hour % HOURS) * 60

OutageEnd(d, end_hour) ==
  IF end_hour = HOURS THEN DayStart(d + 1) ELSE DayStart(d) + end_hour * 60

\* variant: an interval whose notification time has passed is never sent
NeverLate(outage_end_time, current_time) == FALSE

\* the late-fire test of _create_notification_job
StillRunning(outage_end_time, current_time) == outage_end_time > current_time

JobId(j) == <<j.date, j.queue, j.start, j.possible>>

\* scheduler.add_job(..., id=job_id, replace_existing=True)
add_job(store, j) == {x \in store : JobId(x) # JobId(j)} \cup {j}

StartExec(j) == [pc |-> "check", date |-> j.date, queue |-> j.queue,
                 start |-> j.start, end |-> j.end, possible |-> j.possible,
                 committed |-> FALSE, announcement |-> FALSE]

\* the executor thread a fired job runs in: the idle threads of the pool are
\* interchangeable, the first one is taken
FreeWorker(th) ==
  /\ execs[th].pc = "idle"
  /\ \A other \in Workers : other < th => execs[other].pc # "idle"

\* a date job whose run time has come is handed to a free executor thread
JobFire(j, th) ==
  /\ j \in jobs
  /\ j.run = now
  /\ FreeWorker(th)
  /\ jobs' = jobs \ {j}
  /\ execs' = [execs EXCEPT ![th] = StartExec(j)]
  /\ UNCHANGED <<now, site, schedules, queue_notifications, annJobs, poll, recovered,
                 delivered, failed>>
  /\ UNCHANGED outageVars
  /\ UNCHANGED engineVars

AnnJobFire(j, th) ==
  /\ j \in annJobs
  /\ j.run = now
  /\ FreeWorker(th)
  /\ annJobs' = annJobs \ {j}
  /\ execs' = [execs EXCEPT ![th] =
                 [StartExec([j EXCEPT !.possible = FALSE]) EXCEPT !.announcement = TRUE]]
  /\ UNCHANGED <<now, site, schedules, queue_notifications, jobs, poll, recovered,
                 delivered, failed>>
  /\ UNCHANGED outageVars
  /\ UNCHANGED engineVars

\* check_and_notify_announcements, for one power-off window of a new announcement
AnnouncementJob(w) ==
  /\ LET d == Today(now)
         notification_time == DayStart(d) + w.start * 60 - NOTIFY_MINUTES
     IN  /\ d \in Dates
         /\ notification_time >= now
         /\ annJobs' = annJobs \cup
              {[date |-> d, queue |-> w.queue, start |-> w.start, end |-> w.end,
                possible |-> FALSE, run |-> notification_time, created |-> now]}
  /\ UNCHANGED <<now, site, schedules, queue_notifications, jobs, execs, poll,
                 recovered, delivered, failed>>
  /\ UNCHANGED outageVars
  /\ UNCHANGED engineVars

\* ------------------------------------------------------- update_schedules
ParseOutcomes == {"ok", "fail", "mismatch"}

\* parse_schedule_from_image: {} when the download or the parse fails; every
\* queue row otherwise, with no interval when the cells fall outside the image
parse_schedule_from_image(img, outcome) ==
  IF outcome = "fail" THEN EmptyDict
  ELSE IF outcome = "mismatch" THEN [keys |-> SUBQUEUES, ivs |-> {}]
  ELSE [keys |-> SUBQUEUES, ivs |-> ImageCells(img)]

\* `if parsed_schedule:` and `if not parsed_schedule:`
Truthy(parsed) == parsed.keys # {}

\* variant: the lookup by date answers no row
NeverFound(existing) == FALSE

\* crud_schedules.get_schedule_by_date and the test `if existing:`
Found(existing) == existing.present

\* crud_schedules.create_schedule: one more active row for the date;
\* parsed_data is stored only when truthy
create_schedule(existing, img, parsed) ==
  [present |-> TRUE, hash |-> img, isnull |-> ~Truthy(parsed),
   data |-> IF Truthy(parsed) THEN parsed ELSE EmptyDict,
   rows |-> existing.rows + 1]

\* crud_schedules.update_schedule: the row found is written in place;
\* parsed_data is stored whenever it is not None
update_schedule(row, img, parsed) ==
  [present |-> TRUE, hash |-> img, isnull |-> FALSE, data |-> parsed,
   rows |-> row.rows]

\* cleanup_old_schedules: rows older than yesterday are deleted
cleanup_old_schedules(tbl, t) ==
  [d \in Dates |-> IF d < Today(t) - 1 THEN NoRow ELSE tbl[d]]

\* fetch_schedule_images and the clean-up; an empty list ends the run
PollFetch(fetched) ==
  /\ poll.pc = "idle"
  /\ schedules' = cleanup_old_schedules(schedules, now)
  /\ LET listed == IF fetched THEN {d \in Dates : site[d] > 0} ELSE {}
     IN  IF listed = {}
           THEN /\ poll' = IdlePoll
                /\ recovered' = TRUE
           ELSE /\ poll' = [IdlePoll EXCEPT !.pc = "date", !.todo = listed, !.snap = site]
                /\ UNCHANGED recovered
  /\ UNCHANGED <<now, site, queue_notifications, jobs, annJobs, execs, delivered, failed>>
  /\ UNCHANGED outageVars
  /\ UNCHANGED engineVars

\* the date goes to new_dates_added: it had no row and is not in the past
IsNewDate(existing, d, today) == ~Found(existing) /\ d >= today

\* one pass of the loop body up to the database write
PollDate(d, outcome) ==
  /\ poll.pc = "date"
  /\ d \in poll.todo
  /\ LET existing == schedules[d]
         img == poll.snap[d]
         unchanged == Found(existing) /\ existing.hash = img
         reuse == unchanged /\ Truthy(existing.data)
         parsed == IF reuse THEN existing.data
                   ELSE parse_schedule_from_image(img, outcome)
     IN  /\ reuse => outcome = "ok"
         /\ schedules' =
              IF reuse THEN schedules
              ELSE IF Found(existing)
                     THEN [schedules EXCEPT ![d] = update_schedule(existing, img, parsed)]
                     ELSE [schedules EXCEPT ![d] =
                             create_schedule(existing, img, parsed)]
         /\ poll' = [poll EXCEPT !.pc = "cancel", !.date = d, !.parsed = parsed,
                                 !.outcome = IF reuse THEN "none" ELSE outcome,
                                 !.existing = Found(existing),
                                 !.new_dates_added =
                                   IF IsNewDate(existing, d, Today(now))
                                     THEN @ \cup {d} ELSE @]
  /\ UNCHANGED <<now, site, queue_notifications, jobs, annJobs, execs, recovered,
                 delivered, failed>>
  /\ UNCHANGED outageVars
  /\ UNCHANGED engineVars

\* The ids of the jobs in the job store, as the list of the parts that the
\* underscores of the id separate; what follows the second part is kept as
\* one value.  strftime('%Y-%m-%d') of a date is written as its number.
\* f"queue_{schedule_date}_{queue}_{start_hour}_{job_type}"
QueueJobId(j) == <<"queue", ToString(j.date), <<j.queue, j.start, j.possible>>>>
\* f"queue_announcement_{queue}_{start_hour}_{now.strftime('%Y%m%d%H%M%S')}"
AnnouncementJobId(j) == <<"queue", "announcement", <<j.queue, j.start, j.created>>>>
\* f"{outage_type}_{outage.id}"
OutageTypes == {"emergency", "planned"}
OutageJobId(j, outage_type) == <<outage_type, ToString(j.id)>>
\* the ids of the interval, cron and start-up jobs that start_scheduler adds
PeriodicJobIds ==
  { <<"schedules">>, <<"check", "images">>, <<"check", "images", "initial">>,
    <<"emergency">>, <<"announcements">>, <<"planned">>, <<"planned", "initial">>,
    <<"check", "tomorrow">>, <<"cleanup", "outages">>, <<"cleanup", "notifications">>,
    <<"cleanup", "devices">>, <<"cleanup", "hashes">> }

\* variant: the prefix names no date
AnyQueuePrefix(schedule_date) == <<"queue">>

\* job_prefix = f"queue_{schedule_date}_"
JobPrefix(schedule_date) == <<"queue", ToString(schedule_date)>>

\* job.id.startswith(job_prefix): the id begins with the parts of the prefix
\* and goes on after the underscore that ends it
StartsWith(id, job_prefix) ==
  /\ Len(id) > Len(job_prefix)
  /\ \A i \in 1..Len(job_prefix) : id[i] = job_prefix[i]

\* schedule_queue_notifications up to the end of the removal loop, which
\* walks every job of the store; it is called only for a truthy
\* parsed_schedule
PollCancel ==
  /\ poll.pc = "cancel"
  /\ IF Truthy(poll.parsed)
       THEN /\ LET job_prefix == JobPrefix(poll.date)
               IN  /\ jobs' = {j \in jobs : ~StartsWith(QueueJobId(j), job_prefix)}
                   /\ annJobs' =
                        {j \in annJobs : ~StartsWith(AnnouncementJobId(j), job_prefix)}
                   /\ outageJobs' =
                        {j \in outageJobs :
                           \A outage_type \in OutageTypes :
                             ~StartsWith(OutageJobId(j, outage_type), job_prefix)}
            /\ poll' = [poll EXCEPT !.pc = "arm", !.ivs = poll.parsed.ivs,
                                    !.current_time = now]
       ELSE /\ UNCHANGED <<jobs, annJobs, outageJobs>>
            /\ poll' = [poll EXCEPT !.pc = "date", !.todo = @ \ {poll.date}]
  /\ UNCHANGED <<now, site, schedules, queue_notifications, execs, recovered,
                 delivered, failed>>
  /\ UNCHANGED <<outages, outageExecs, pushed>>
  /\ UNCHANGED engineVars

\* the loops of schedule_queue_notifications walk the intervals in order
NextInterval(ivs) ==
  Cells[CHOOSE k \in 1..Len(Cells) :
          /\ Cells[k] \in ivs
          /\ \A m \in 1..(k - 1) : Cells[m] \notin ivs]

\* _create_notification_job for one interval
PollArm(iv) ==
  /\ poll.pc = "arm"
  /\ poll.ivs # {}
  /\ iv = NextInterval(poll.ivs)
  /\ execs[PollThread].pc = "idle"
  /\ LET d == poll.date
         notification_time == NotifyTime(d, iv.start)
         j == [date |-> d, queue |-> iv.queue, start |-> iv.start, end |-> iv.end,
               possible |-> iv.possible, run |-> notification_time]
     IN  IF notification_time <= poll.current_time
           THEN /\ UNCHANGED jobs
                /\ IF StillRunning(OutageEnd(d, iv.end), poll.current_time)
                     THEN execs' = [execs EXCEPT ![PollThread] = StartExec(j)]
                     ELSE UNCHANGED execs
           ELSE /\ jobs' = add_job(jobs, j)
                /\ UNCHANGED execs
  /\ poll' = [poll EXCEPT !.ivs = @ \ {iv}]
  /\ UNCHANGED <<now, site, schedules, queue_notifications, annJobs, recovered,
                 delivered, failed>>
  /\ UNCHANGED outageVars
  /\ UNCHANGED engineVars

\* the end of schedule_queue_notifications: on to the next date
PollNext ==
  /\ poll.pc = "arm"
  /\ poll.ivs = {}
  /\ execs[PollThread].pc = "idle"
  /\ poll' = [poll EXCEPT !.pc = "date", !.todo = @ \ {poll.date}]
  /\ UNCHANGED <<now, site, schedules, queue_notifications, jobs, annJobs, execs,
                 recovered, delivered, failed>>
  /\ UNCHANGED outageVars
  /\ UNCHANGED engineVars

\* variant: the state is left as it is
NoReset(state) == state

\* reset_no_schedule_state: enabled again, no day counted
reset_no_schedule_state(state) ==
  [state EXCEPT !.enabled = TRUE, !.consecutive_days_without_schedule = 0]

\* the loop is over: a run that stored the first row of a date of today or
\* later announces the schedule (notify_schedule_update) and resets the
\* no-schedule state; then update_schedules returns
PollReturn ==
  /\ poll.pc = "date"
  /\ poll.todo = {}
  /\ poll' = IdlePoll
  /\ recovered' = TRUE
  /\ IF poll.new_dates_added # {}
       THEN /\ no_schedule_state' = reset_no_schedule_state(no_schedule_state)
            /\ no_schedule_write' = [by |-> "reset",
                                     before |-> no_schedule_state.enabled]
       ELSE UNCHANGED <<no_schedule_state, no_schedule_write>>
  /\ UNCHANGED <<now, site, schedules, queue_notifications, jobs, annJobs, execs,
                 delivered, failed>>
  /\ UNCHANGED outageVars
  /\ UNCHANGED <<cacheVars, statusVars, cellVars, tomorrow_check, hashVars, plannedVars>>

\* ------------------------------------------------------- the environment
\* the clock moves on to the next instant looked at.  A pending job fires at
\* its run time, not later; the instants are ten minutes or more apart, and
\* the poll and the fired jobs of an instant have ended before the next one
Tick(t) ==
  /\ t > now
  /\ \A j \in jobs \cup annJobs : j.run >= t
  /\ \A th \in Threads : execs[th].pc = "idle"
  /\ poll.pc = "idle"
  /\ \A j \in outageJobs : j.run >= t
  /\ \A th \in Threads : outageExecs[th].pc = "idle"
  /\ now' = t
  /\ UNCHANGED <<site, schedules, queue_notifications, jobs, annJobs, execs, poll,
                 recovered, delivered, failed>>
  /\ UNCHANGED outageVars
  /\ UNCHANGED engineVars

\* the site replaces the image of a date by its next version (a poll reads the
\* site once, when it starts)
Publish(d) ==
  /\ site[d] < NumImages
  /\ poll.pc = "idle"
  /\ site' = [site EXCEPT ![d] = @ + 1]
  /\ UNCHANGED <<now, schedules, queue_notifications, jobs, annJobs, execs, poll,
                 recovered, delivered, failed>>
  /\ UNCHANGED outageVars
  /\ UNCHANGED engineVars

\* variant: the ledger is kept in process memory
VolatileLedger(rows) == [k \in DOMAIN rows |-> 0]

\* the ledger is a database table: its rows outlive the process
PersistedLedger(rows) == rows

\* load_sent_hashes_from_db: the hashes recorded in the last 7 days, by type.
\* The instants looked at span less than 7 days, so every recorded hash is
\* inside the window.
load_sent_hashes_from_db(rows, type) == {r[2] : r \in {x \in rows : x[1] = type}}

\* the process stops and starts again: the job store, the running threads and
\* the dictionaries held in memory are lost, the database is kept and
\* start_scheduler loads the sent hashes from it
Restart ==
  /\ jobs' = {}
  /\ annJobs' = {}
  /\ execs' = [th \in Threads |-> IdleExec]
  /\ poll' = IdlePoll
  /\ recovered' = FALSE
  /\ queue_notifications' = PersistedLedger(queue_notifications)
  /\ UNCHANGED <<now, site, schedules, delivered, failed>>
  /\ outageJobs' = {}
  /\ outageExecs' = [th \in Threads |-> IdleOutageExec]
  /\ UNCHANGED <<outages, pushed>>
  /\ page_hashes' = NoHashes
  /\ lastContent' = NoHashes
  /\ lastCall' = NoCall
  /\ last_announcement_hashes' =
       load_sent_hashes_from_db(sent_announcement_hashes, "general")
  /\ last_sent_paragraphs' =
       load_sent_hashes_from_db(sent_announcement_hashes, "paragraph")
  /\ other_hashes' = sent_others
  /\ other_paragraphs' = sent_others
  /\ UNCHANGED <<active_outages, statusVars, cellVars, stateVars,
                 sent_announcement_hashes, sent_others, announcement_pushes,
                 paragraph_pushes, plannedVars>>

Next ==
  \/ \E th \in Threads : SendCheck(th)
  \/ \E th \in Threads : SendInsert(th)
  \/ \E th \in Threads : SendRollback(th)
  \/ \E th \in Threads, o \in DeliveryOutcomes : SendDeliver(th, o)
  \/ \E j \in jobs, th \in Workers : JobFire(j, th)
  \/ \E j \in annJobs, th \in Workers : AnnJobFire(j, th)
  \/ \E w \in AnnouncedWindows : AnnouncementJob(w)
  \/ \E f \in BOOLEAN : PollFetch(f)
  \/ \E d \in Dates, o \in ParseOutcomes : PollDate(d, o)
  \/ PollCancel
  \/ \E iv \in poll.ivs : PollArm(iv)
  \/ PollNext
  \/ PollReturn
  \/ \E t \in Instants : Tick(t)
  \/ \E d \in Dates : Publish(d)
  \/ Restart

Spec == Init /\ [][Next]_vars

\* ---------------------------------------------------------------------------
\* The 'no schedule for tomorrow' notification (scheduler.py 1891-2031,
\* notification_routes.py 529-572)
\* ---------------------------------------------------------------------------
\* the cron job check_tomorrow runs at 23:00
CHECK_HOUR == 23
\* the pushes without a schedule after which the notification is switched off
NO_SCHEDULE_LIMIT == 5

\* the names the module app.services.telegram_service defines
TelegramServiceNames ==
  {"logger", "TelegramService", "_telegram_service", "init_telegram_service",
   "get_telegram_service"}

\* variant: the module defines every name asked of it
EveryAttribute(name) == TRUE

\* telegram_service.<name>: the lookup raises AttributeError for a name the
\* module does not define
HasAttribute(name) == name \in TelegramServiceNames

\* the state update that follows the push: one more day counted; at the limit
\* the notification is switched off
CountedDay(state) ==
  LET days == state.consecutive_days_without_schedule + 1
  IN  [enabled |-> IF days >= NO_SCHEDULE_LIMIT THEN FALSE ELSE state.enabled,
       consecutive_days_without_schedule |-> days]

\* what the run leaves of the state once the push to all users has gone out:
\* the call telegram_service.send_telegram_notification comes next, and when it
\* raises the except branch rolls the session back before the state is touched
StateAfterPush(state) ==
  IF HasAttribute("send_telegram_notification") THEN CountedDay(state) ELSE state

\* One run of check_tomorrow_schedule_and_notify, fired by cron once a day.
CheckTomorrowScheduleAndNotify ==
  /\ now = DayStart(Today(now)) + CHECK_HOUR * 60
  /\ tomorrow_check.date # Today(now)
  /\ LET tomorrow == Today(now) + 1
         schedule == tomorrow \in Dates /\ Found(schedules[tomorrow])
         after == StateAfterPush(no_schedule_state)
     IN  IF schedule
           THEN /\ tomorrow_check' = [date |-> Today(now), outcome |-> "has_schedule"]
                /\ UNCHANGED <<no_schedule_state, no_schedule_write>>
         ELSE IF ~no_schedule_state.enabled
           THEN /\ tomorrow_check' = [date |-> Today(now), outcome |-> "disabled"]
                /\ UNCHANGED <<no_schedule_state, no_schedule_write>>
         ELSE /\ tomorrow_check' = [date |-> Today(now), outcome |-> "pushed"]
              /\ no_schedule_state' = after
              /\ no_schedule_write' =
                   IF after = no_schedule_state THEN no_schedule_write
                   ELSE [by |-> "check", before |-> no_schedule_state.enabled]
  /\ UNCHANGED <<now, site, schedules, queue_notifications, jobs, annJobs, execs, poll,
                 recovered, delivered, failed, outageVars, cacheVars, statusVars,
                 cellVars, hashVars, plannedVars>>

\* POST /notifications/no-schedule/state: the notification is switched on or
\* off by hand; switching it on clears the counter
UpdateNoScheduleState(enabled) ==
  /\ no_schedule_state' =
       [enabled |-> enabled,
        consecutive_days_without_schedule |->
          IF enabled THEN 0 ELSE no_schedule_state.consecutive_days_without_schedule]
  /\ no_schedule_write' = [by |-> "admin", before |-> no_schedule_state.enabled]
  /\ UNCHANGED <<now, site, schedules, queue_notifications, jobs, annJobs, execs, poll,
                 recovered, delivered, failed, outageVars, cacheVars, statusVars,
                 cellVars, tomorrow_check, hashVars, plannedVars>>

NextNoSchedule ==
  \/ \E th \in Threads : SendCheck(th)
  \/ \E th \in Threads : SendInsert(th)
  \/ \E th \in Threads, o \in DeliveryOutcomes : SendDeliver(th, o)
  \/ \E j \in jobs, th \in Workers : JobFire(j, th)
  \/ \E f \in BOOLEAN : PollFetch(f)
  \/ \E d \in Dates, o \in ParseOutcomes : PollDate(d, o)
  \/ PollCancel
  \/ \E iv \in poll.ivs : PollArm(iv)
  \/ PollNext
  \/ PollReturn
  \/ \E t \in Instants : Tick(t)
  \/ CheckTomorrowScheduleAndNotify
  \/ \E enabled \in BOOLEAN : UpdateNoScheduleState(enabled)

SpecNoSchedule == Init /\ [][NextNoSchedule]_vars

\* ------------------------------------------- discrete outage records
\* every record is an outage from 14:00 to 16:00 of date 0
OutageWindow == [start_time |-> DayStart(0) + 14 * 60, end_time |-> DayStart(0) + 16 * 60]

StartOutageExec(id) == [pc |-> "load", id |-> id, current_time |-> 0]

\* the dedup test of send_outage_notification
AlreadySent(row) == row.notification_sent_at # {}

\* what the pushes and the history rows of one execution come to: "sent" when
\* a device was reached, "none" when no user or no token is registered, "raise"
\* when an exception ends the execution before a push went out
PushOutcomes == {"sent", "none", "raise"}

\* update_emergency_outages / update_planned_outages store a record that is new
\* on the site and hand it to notify_new_outages_immediately
CreateOutage(id) ==
  /\ ~outages[id].present
  /\ \A other \in Outages : other < id => outages[other].present
  /\ outageExecs[PollThread].pc = "idle"
  /\ outages' = [outages EXCEPT ![id] = [present |-> TRUE, notification_sent_at |-> {}]]
  /\ LET current_time == now
         minutes_until == OutageWindow.start_time - current_time
     IN  IF OutageWindow.end_time <= current_time
           THEN UNCHANGED <<outageJobs, outageExecs>>
           ELSE IF minutes_until > 10
                  THEN /\ outageJobs' = {j \in outageJobs : j.id # id} \cup
                            {[id |-> id, run |-> OutageWindow.start_time - 10]}
                       /\ UNCHANGED outageExecs
                  ELSE /\ outageExecs' = [outageExecs EXCEPT ![PollThread] =
                                            StartOutageExec(id)]
                       /\ UNCHANGED outageJobs
  /\ UNCHANGED <<now, site, schedules, queue_notifications, jobs, annJobs, execs, poll,
                 recovered, delivered, failed, pushed>>
  /\ UNCHANGED engineVars

\* the job <type>_<id> fires and runs send_outage_notification in a pool thread
OutageJobFire(j, th) ==
  /\ j \in outageJobs
  /\ j.run = now
  /\ th \in Workers
  /\ outageExecs[th].pc = "idle"
  /\ outageJobs' = outageJobs \ {j}
  /\ outageExecs' = [outageExecs EXCEPT ![th] = StartOutageExec(j.id)]
  /\ UNCHANGED <<now, site, schedules, queue_notifications, jobs, annJobs, execs, poll,
                 recovered, delivered, failed, outages, pushed>>
  /\ UNCHANGED engineVars

\* one more call of send_outage_notification(id, type) for a stored record,
\* made while other executions for the record may be running
OutageCall(id, th) ==
  /\ outages[id].present
  /\ th \in Workers
  /\ outageExecs[th].pc = "idle"
  /\ outageExecs' = [outageExecs EXCEPT ![th] = StartOutageExec(id)]
  /\ UNCHANGED <<now, site, schedules, queue_notifications, jobs, annJobs, execs, poll,
                 recovered, delivered, failed, outages, outageJobs, pushed>>
  /\ UNCHANGED engineVars

\* send_outage_notification reads the record: it returns when the push was
\* sent already or the outage is over
OutageLoad(th) ==
  /\ outageExecs[th].pc = "load"
  /\ LET row == outages[outageExecs[th].id]
     IN  outageExecs' = [outageExecs EXCEPT ![th] =
           IF AlreadySent(row) \/ OutageWindow.end_time <= now
             THEN IdleOutageExec
             ELSE [@ EXCEPT !.pc = "push", !.current_time = now]]
  /\ UNCHANGED <<now, site, schedules, queue_notifications, jobs, annJobs, execs, poll,
                 recovered, delivered, failed, outages, outageJobs, pushed>>
  /\ UNCHANGED engineVars

\* the loop over the houses: the pushes go out, the record is not marked yet
OutagePush(th, outcome) ==
  /\ outageExecs[th].pc = "push"
  /\ IF outcome = "sent"
       THEN /\ pushed' = [pushed EXCEPT ![outageExecs[th].id] = @ + 1]
            /\ outageExecs' = [outageExecs EXCEPT ![th] = [@ EXCEPT !.pc = "mark"]]
       ELSE /\ UNCHANGED pushed
            /\ outageExecs' = [outageExecs EXCEPT ![th] = IdleOutageExec]
  /\ UNCHANGED <<now, site, schedules, queue_notifications, jobs, annJobs, execs, poll,
                 recovered, delivered, failed, outages, outageJobs>>
  /\ UNCHANGED engineVars

\* `if sent_to_any:` notification_sent_at is written and committed
OutageMark(th) ==
  /\ outageExecs[th].pc = "mark"
  /\ outages' = [outages EXCEPT ![outageExecs[th].id] =
                   [@ EXCEPT !.notification_sent_at = {outageExecs[th].current_time}]]
  /\ outageExecs' = [outageExecs EXCEPT ![th] = IdleOutageExec]
  /\ UNCHANGED <<now, site, schedules, queue_notifications, jobs, annJobs, execs, poll,
                 recovered, delivered, failed, outageJobs, pushed>>
  /\ UNCHANGED engineVars

NextOutage ==
  \/ \E id \in Outages : CreateOutage(id)
  \/ \E j \in outageJobs, th \in Workers : OutageJobFire(j, th)
  \/ \E id \in Outages, th \in Workers : OutageCall(id, th)
  \/ \E th \in Threads : OutageLoad(th)
  \/ \E th \in Threads, o \in PushOutcomes : OutagePush(th, o)
  \/ \E th \in Threads : OutageMark(th)
  \/ \E t \in Instants : Tick(t)

SpecOutage == Init /\ [][NextOutage]_vars


\* ------------------------------------------- page cache and outage pages
\* The pages the site may serve for a region: page c lists the outages
\* PageItems(rem, c) of the region (bit i-1 of c: outage i is listed).
Contents == 0..3
PageItems(rem, c) == {<<rem, i>> : i \in {j \in 1..2 : (c \div (2 ^ (j - 1))) % 2 = 1}}

\* the range of the page hashes
HashSpace == 16

\* get_content_hash: the MD5 digest of the content, distinct for distinct pages
get_content_hash(content) == (content * 5 + 3) % HashSpace

\* variant: the first observation of a key is reported as unchanged
FirstSeenUnchanged(store, page_key, new_content) ==
  page_key \in DOMAIN store /\ store[page_key] # get_content_hash(new_content)

\* has_page_changed, the value returned
has_page_changed(store, page_key, new_content) ==
  LET new_hash == get_content_hash(new_content)
  IN  IF page_key \notin DOMAIN store THEN TRUE
      ELSE IF store[page_key] = new_hash THEN FALSE
      ELSE TRUE

\* variant: the new hash is written over every key of the dictionary
StoreHashEverywhere(store, page_key, new_hash) ==
  [k \in DOMAIN store \cup {page_key} |-> new_hash]

\* _page_hashes[page_key] = new_hash
StoreHash(store, page_key, new_hash) ==
  [k \in DOMAIN store \cup {page_key} |-> IF k = page_key THEN new_hash ELSE store[k]]

\* variant: a changed page is reported and the old hash is kept
HashesKeptOnChange(store, page_key, new_content) ==
  IF page_key \notin DOMAIN store
    THEN StoreHash(store, page_key, get_content_hash(new_content))
    ELSE store

\* has_page_changed, the dictionary it leaves
HashesAfter(store, page_key, new_content) ==
  LET new_hash == get_content_hash(new_content)
  IN  IF page_key \notin DOMAIN store THEN StoreHash(store, page_key, new_hash)
      ELSE IF store[page_key] = new_hash THEN store
      ELSE StoreHash(store, page_key, new_hash)

\* how the request of parse_outages ends: the page arrives ("ok"), the request
\* times out or answers an HTTP error ("timeout"), or the page arrives and the
\* walk over its rows raises ("broken")
FetchOutcomes == {"ok", "timeout", "broken"}

\* the request of parse_outages came back with a page
Fetched(outcome) == outcome # "timeout"

\* parse_outages, the value returned: None for an unchanged page, the outages
\* listed for a changed one, [] from the except branch
parse_outages(store, rem, outcome, content) ==
  IF ~Fetched(outcome) THEN [result |-> "list", items |-> {}]
  ELSE IF ~has_page_changed(store, rem, content) THEN [result |-> "None", items |-> {}]
  ELSE IF outcome = "broken" THEN [result |-> "list", items |-> {}]
  ELSE [result |-> "list", items |-> PageItems(rem, content)]

\* variant: the hash is stored before the request is known to have succeeded
HashesAfterAnyParse(store, rem, outcome, content) == HashesAfter(store, rem, content)

\* parse_outages, the dictionary it leaves: has_page_changed is called after
\* raise_for_status
HashesAfterParse(store, rem, outcome, content) ==
  IF Fetched(outcome) THEN HashesAfter(store, rem, content) ELSE store

\* one run of parse_outages(rem_id, 1) against the page the site serves
ParseOutages(rem, outcome, content) ==
  /\ page_hashes' = HashesAfterParse(page_hashes, rem, outcome, content)
  /\ lastContent' = IF Fetched(outcome) THEN StoreHash(lastContent, rem, content)
                    ELSE lastContent
  /\ lastCall' = [key |-> rem, content |-> content, outcome |-> outcome,
                  first |-> Fetched(outcome) /\ rem \notin DOMAIN page_hashes,
                  changed |-> Fetched(outcome) /\
                              has_page_changed(page_hashes, rem, content)] @@
                 parse_outages(page_hashes, rem, outcome, content)
  /\ UNCHANGED <<now, site, schedules, queue_notifications, jobs, annJobs, execs, poll,
                 recovered, delivered, failed, outageVars, active_outages, statusVars,
                 cellVars, notifyVars>>

NextCache ==
  \/ \E rem \in Regions, o \in FetchOutcomes, c \in Contents : ParseOutages(rem, o, c)
  \/ Restart

SpecCache == Init /\ [][NextCache]_vars

\* ------------------------------------------- update_emergency_outages
\* fetch_all_emergency_outages walks the regions in order; Results(store, fetch)
\* is what parse_outages returned for each, the dictionary moving on from
\* region to region
RECURSIVE HashesAfterRegions(_, _, _)
HashesAfterRegions(store, fetch, n) ==
  IF n = 0 THEN store
  ELSE HashesAfterParse(HashesAfterRegions(store, fetch, n - 1), n,
                        fetch[n].outcome, fetch[n].content)

RECURSIVE ContentsAfterRegions(_, _, _)
ContentsAfterRegions(seen, fetch, n) ==
  IF n = 0 THEN seen
  ELSE LET before == ContentsAfterRegions(seen, fetch, n - 1)
       IN  IF Fetched(fetch[n].outcome) THEN StoreHash(before, n, fetch[n].content)
           ELSE before

Results(store, fetch) ==
  [rem \in Regions |->
     parse_outages(HashesAfterRegions(store, fetch, rem - 1), rem,
                   fetch[rem].outcome, fetch[rem].content)]

\* fetch_all_emergency_outages: None when every page was unchanged, the
\* outages of the other pages together otherwise
fetch_all_emergency_outages(results) ==
  IF \A rem \in Regions : results[rem].result = "None"
    THEN [result |-> "None", items |-> {}]
    ELSE [result |-> "list",
          items |-> UNION {results[rem].items : rem \in Regions}]

\* crud_outages.clear_all_active_emergency_outages
clear_all_active_emergency_outages(rows) == {}

\* to_add = new_hashes - existing_hashes
ToAdd(rows, items) == items \ rows

\* variant: every active row is deactivated before the fetched ones are added
RemoveAll(rows, items) == rows

\* to_remove = existing_hashes - new_hashes
ToRemove(rows, items) == rows \ items

\* the rows left active by update_emergency_outages for what the fetch gave
ActiveAfterUpdate(rows, fetched) ==
  IF fetched.result = "None" THEN rows
  ELSE IF fetched.items = {} THEN clear_all_active_emergency_outages(rows)
  ELSE LET to_add == ToAdd(rows, fetched.items)
           to_remove == ToRemove(rows, fetched.items)
       IN  (rows \ to_remove) \cup to_add

\* one run of update_emergency_outages; fetch[rem] is how the request for the
\* region ends and the page it is answered with.  The rows it adds go on to
\* notify_new_outages_immediately (CreateOutage).
UpdateEmergencyOutages(fetch) ==
  /\ page_hashes' = HashesAfterRegions(page_hashes, fetch, NumRegions)
  /\ lastContent' = ContentsAfterRegions(lastContent, fetch, NumRegions)
  /\ LET fetched == fetch_all_emergency_outages(Results(page_hashes, fetch))
     IN  /\ active_outages' = ActiveAfterUpdate(active_outages, fetched)
         /\ lastCall' = [key |-> 0, content |-> 0, outcome |-> "poll",
                         result |-> fetched.result, items |-> fetched.items,
                         fetch |-> fetch]
  /\ UNCHANGED <<now, site, schedules, queue_notifications, jobs, annJobs, execs, poll,
                 recovered, delivered, failed, outageVars, statusVars, cellVars,
                 notifyVars>>

NextPoll ==
  \/ \E fetch \in [Regions -> [outcome : FetchOutcomes, content : Contents]] :
       UpdateEmergencyOutages(fetch)
  \/ Restart

SpecPoll == Init /\ [][NextPoll]_vars

\* ---------------------------------------------------------------------------
\* merge_overlapping_intervals of get_batch_status (batch_routes.py 225-243)
\* ---------------------------------------------------------------------------

\* Variant: the end of the interval met last is taken.
LatestEnd(a, b) == b

\* max(last[1], current[1])
Max(a, b) == IF a >= b THEN a ELSE b

\* One step of sorted(intervals, key=lambda x: x[0]): the sort is stable, so x
\* goes behind every interval of s whose start is not greater than its own.
InsertStable(s, x) ==
  LET k == Cardinality({i \in 1..Len(s) : s[i][1] <= x[1]})
  IN  SubSeq(s, 1, k) \o <<x>> \o SubSeq(s, k + 1, Len(s))

RECURSIVE sorted_intervals(_)
sorted_intervals(ivs) ==
  IF ivs = <<>> THEN <<>>
  ELSE InsertStable(sorted_intervals(SubSeq(ivs, 1, Len(ivs) - 1)), ivs[Len(ivs)])

\* Variant: the interval compared with the current one is the previous input
\* interval, not the tail of the merged list.
PreviousInput(m, sorted, n) == sorted[n - 1]

\* last = merged[-1]
LastMerged(m, sorted, n) == m[Len(m)]

\* Variant: intervals that only touch are not joined.
StrictlyOverlaps(last, current) == last[2] > current[1]

\* if last[1] >= current[0]
Touches(last, current) == last[2] >= current[1]

\* The loop over sorted_intervals[1:], n being the position of current.
RECURSIVE MergeFrom(_, _, _)
MergeFrom(m, sorted, n) ==
  IF n > Len(sorted) THEN m
  ELSE LET last == LastMerged(m, sorted, n)
           current == sorted[n]
       IN  IF Touches(last, current)
           THEN MergeFrom([m EXCEPT ![Len(m)] =
                             <<last[1], Max(last[2], current[2])>>], sorted, n + 1)
           ELSE MergeFrom(Append(m, current), sorted, n + 1)

merge_overlapping_intervals(ivs) ==
  IF ivs = <<>> THEN <<>>
  ELSE LET sorted == sorted_intervals(ivs)
       IN  MergeFrom(<<sorted[1]>>, sorted, 2)

\* The lists merge_overlapping_intervals may be called on: at most MaxIntervals
\* (start, end) pairs; announcement rows may have end <= start.
InitMerge ==
  /\ InitStores
  /\ InitClock
  /\ intervals \in Lists(AnyIntervals, MaxIntervals)
  /\ parsed_data = NoHashes
  /\ image = NoHashes

\* user_intervals = merge_overlapping_intervals(user_intervals)
MergeCall ==
  /\ merged' = merge_overlapping_intervals(intervals)
  /\ UNCHANGED <<intervals, parsed_data, announcement_outages, applied, query, status,
                 outage_status>>
  /\ UNCHANGED <<cacheVars, cellVars, notifyVars>>
  /\ UNCHANGED <<now, site, schedules, queue_notifications, jobs, annJobs, execs,
                 poll, recovered, delivered, failed, outageVars>>

\* The merged list handed to the merge again.
MergeAgain ==
  /\ merged # <<>>
  /\ intervals' = merged
  /\ merged' = merge_overlapping_intervals(merged)
  /\ UNCHANGED <<parsed_data, announcement_outages, applied, query, status,
                 outage_status>>
  /\ UNCHANGED <<cacheVars, cellVars, notifyVars>>
  /\ UNCHANGED <<now, site, schedules, queue_notifications, jobs, annJobs, execs,
                 poll, recovered, delivered, failed, outageVars>>

NextMerge == MergeCall \/ MergeAgain

SpecMerge == InitMerge /\ [][NextMerge]_vars

\* ---------------------------------------------------------------------------
\* update_planned_outages (scheduler.py 992-1082)
\* ---------------------------------------------------------------------------

\* The planned outages the site may list.  An outage is known by the hash of
\* its key fields (generate_outage_hash); a stored row hashes to the value the
\* fetched outage had, the times being written out the same way on both sides.
PlannedItems == 1..(NumOutages + 1)

\* what fetch_all_planned_outages may answer: None, or the outages listed
PlannedFetches ==
  {[result |-> "None", items |-> {}]} \cup
  {[result |-> "list", items |-> S] : S \in SUBSET PlannedItems}

\* crud_outages.clear_all_active_planned_outages
clear_all_active_planned_outages(rows) == {}

\* the rows update_planned_outages creates for what the fetch gave
NewOutages(rows, fetched) ==
  IF fetched.result = "None" \/ fetched.items = {} THEN {}
  ELSE ToAdd(rows, fetched.items)

\* the rows it deactivates
Deactivated(rows, fetched) ==
  IF fetched.result = "None" THEN {}
  ELSE IF fetched.items = {} THEN rows \ clear_all_active_planned_outages(rows)
  ELSE ToRemove(rows, fetched.items)

\* One run of update_planned_outages.  A row is created with no
\* notification_sent_at; the rows created go on to
\* notify_new_outages_immediately, and `immediate` says that they start within
\* ten minutes and their push goes out in this run, which sets it.
UpdatePlannedOutages(fetched, immediate) ==
  /\ LET new_outages_list == NewOutages(planned_outages, fetched)
         deactivated == Deactivated(planned_outages, fetched)
     IN  /\ planned_outages' = (planned_outages \ deactivated) \cup new_outages_list
         /\ notification_sent_at' =
              (notification_sent_at \ deactivated) \cup
                (IF immediate THEN new_outages_list ELSE {})
         /\ lastPlanned' = [result |-> fetched.result, items |-> fetched.items,
                            new_outages_list |-> new_outages_list,
                            deactivated |-> deactivated]
  /\ UNCHANGED <<now, site, schedules, queue_notifications, jobs, annJobs, execs, poll,
                 recovered, delivered, failed, outageVars, cacheVars, statusVars,
                 cellVars, stateVars, hashVars>>

NextPlanned ==
  \/ \E fetched \in PlannedFetches, immediate \in BOOLEAN :
       UpdatePlannedOutages(fetched, immediate)
  \/ Restart

SpecPlanned == Init /\ [][NextPlanned]_vars

\* ---------------------------------------------------------------------------
\* Announcement outages and the status query (scheduler.py 629-694,
\* batch_routes.py 66-288)
\* ---------------------------------------------------------------------------

\* queue_times of parse_queue_times_from_announcement: power-off windows of a
\* queue; the hours are taken as written, so a window may end before it starts.
QueueTimes ==
  {[queue |-> "3.1", start |-> 1, end |-> 3],
   [queue |-> "3.1", start |-> 3, end |-> 1],
   [queue |-> "6.2", start |-> 1, end |-> 3]}

\* Power-off windows processed in a behaviour
MaxAnnouncements == MaxIntervals - 1

\* Variant: the lookup for an existing row never finds one.
NeverExisting(rows, w) == FALSE

\* existing = db.query(AnnouncementOutage).filter(date, queue, start_hour,
\* end_hour).first()
Existing(rows, w) == \E i \in 1..Len(rows) : rows[i] = w

\* if existing: (log) else: db.add(announcement_outage); db.commit()
RowsAfterStore(rows, w) == IF Existing(rows, w) THEN rows ELSE Append(rows, w)

\* The body of the loop over queue_times in check_and_notify_announcements for
\* one power-off window of today: the row is stored unless it exists, then the
\* date job is created unless its time has passed. applied records every
\* window that was processed.
StoreAnnouncementOutage(w) ==
  /\ Len(applied) < MaxAnnouncements
  /\ announcement_outages' = RowsAfterStore(announcement_outages, w)
  /\ applied' = Append(applied, w)
  /\ LET d == Today(now)
         notification_time == DayStart(d) + w.start * 60 - NOTIFY_MINUTES
     IN  annJobs' = IF notification_time < now THEN annJobs
                    ELSE annJobs \cup
                           {[date |-> d, queue |-> w.queue, start |-> w.start,
                             end |-> w.end, possible |-> FALSE,
                             run |-> notification_time, created |-> now]}
  /\ UNCHANGED <<intervals, merged, parsed_data, query, status, outage_status>>
  /\ UNCHANGED <<cacheVars, cellVars, notifyVars>>
  /\ UNCHANGED <<now, site, schedules, queue_notifications, jobs, execs,
                 poll, recovered, delivered, failed, outageVars>>

\* The hour columns of a table row; the last period ends at RowEnd.
RowEnd == Cardinality(MergeHours) - 1
CellColours == {"blue", "gray", "white"}
NoStart == -1

\* Variant: every cell of a run moves the start of the run.
RunRestarts(start, hour) == hour

\* if blue_start is None: blue_start = hour (and the same for gray_start)
RunStart(start, hour) == IF start = NoStart THEN hour ELSE start

\* Variant: a run is closed one hour after the cell that ends it.
CloseRunLate(periods, start, hour) ==
  IF start # NoStart THEN Append(periods, <<start, hour + 1>>) ELSE periods

\* if blue_start is not None: blue_periods.append((blue_start, hour))
CloseRun(periods, start, hour) ==
  IF start # NoStart THEN Append(periods, <<start, hour>>) ELSE periods

\* parse_schedule_table for one row: runs of blue cells become the outages,
\* runs of gray cells the possible outages.  row[hour] is the colour of the
\* cell, or "empty" for a crop without pixels, which the loop skips.
RECURSIVE Periods(_, _, _, _, _)
Periods(row, hour, blue_start, gray_start, acc) ==
  LET closeBlue(a, h) == [a EXCEPT !.outages = CloseRun(@, blue_start, h)]
      closeGray(a, h) == [a EXCEPT !.possible = CloseRun(@, gray_start, h)]
  IN  IF hour = RowEnd THEN closeGray(closeBlue(acc, RowEnd), RowEnd)
      ELSE IF row[hour] = "empty"
           THEN Periods(row, hour + 1, blue_start, gray_start, acc)
      ELSE IF row[hour] = "blue"
           THEN Periods(row, hour + 1, RunStart(blue_start, hour),
                        NoStart, closeGray(acc, hour))
      ELSE IF row[hour] = "gray"
           THEN Periods(row, hour + 1, NoStart, RunStart(gray_start, hour),
                        closeBlue(acc, hour))
      ELSE Periods(row, hour + 1, NoStart, NoStart,
                   closeGray(closeBlue(acc, hour), hour))

\* parsed_data of one queue in the dict format, for every colouring of its row
ParsedRows ==
  {Periods(row, 0, NoStart, NoStart, [outages |-> <<>>, possible |-> <<>>]) :
     row \in [0..(RowEnd - 1) -> CellColours]}

\* announcement_records of the queue, as (start_hour, end_hour) pairs
AnnouncementIntervals(rows, queue) ==
  LET records == SelectSeq(rows, LAMBDA ao : ao.queue = queue)
  IN  [i \in 1..Len(records) |-> <<records[i].start, records[i].end>>]

\* user_intervals after the announcement rows were appended and merged
UserIntervals(user_data, rows, queue) ==
  merge_overlapping_intervals(user_data.outages \o AnnouncementIntervals(rows, queue))

\* is_possible_outage = interval in possible_intervals
IsPossibleOutage(interval, possible_intervals) ==
  \E i \in 1..Len(possible_intervals) : possible_intervals[i] = interval

\* start_hour <= current_hour < end_hour
Covers(interval, current_hour) ==
  interval[1] <= current_hour /\ current_hour < interval[2]

\* The schedules a query may find stored for today: none or an unparsed one
\* (an empty dict), or a table that gives every queue it lists the same row.
ParsedData ==
  {[q \in Q |-> row] : Q \in {{}, {"3.1"}, SUBQUEUES}, row \in ParsedRows}

InitStatus ==
  /\ InitStores
  /\ InitClock
  /\ intervals = <<>>
  /\ parsed_data \in ParsedData
  /\ image = NoHashes

\* get_batch_status for one address of the queue, asked for today at
\* current_hour. Without a schedule or without the queue in it the answer is
\* has_power = True and no intervals. until is the end time of the message:
\* the last interval covering the hour sets it.
BatchStatus(queue, current_hour) ==
  LET found == queue \in DOMAIN parsed_data
      user_data == IF found THEN parsed_data[queue]
                   ELSE [outages |-> <<>>, possible |-> <<>>]
      possible_intervals == user_data.possible
      user_intervals == IF found
                        THEN UserIntervals(user_data, announcement_outages, queue)
                        ELSE <<>>
      all_intervals == user_intervals \o possible_intervals
      covering == {i \in 1..Len(all_intervals) : Covers(all_intervals[i], current_hour)}
  IN  /\ query' = [queue |-> queue, outages |-> user_data.outages,
                   possible |-> possible_intervals, hour |-> current_hour,
                   applied |-> applied]
      /\ status' =
           [answered |-> TRUE,
            has_power |-> covering = {},
            user_intervals |-> user_intervals,
            upcoming_outages |->
              [i \in 1..Len(all_intervals) |->
                 [start_hour |-> all_intervals[i][1],
                  end_hour |-> all_intervals[i][2],
                  is_possible |-> IsPossibleOutage(all_intervals[i], possible_intervals)]],
            until |-> IF covering = {} THEN {}
                      ELSE {all_intervals[CHOOSE i \in covering :
                                            \A j \in covering : j <= i][2]}]
      /\ UNCHANGED <<intervals, merged, parsed_data, announcement_outages, applied,
                     outage_status>>
      /\ UNCHANGED <<cacheVars, cellVars, notifyVars>>
      /\ UNCHANGED <<now, site, schedules, queue_notifications, jobs, annJobs,
                     execs, poll, recovered, delivered, failed, outageVars>>

NextStatus ==
  \/ \E w \in QueueTimes : StoreAnnouncementOutage(w)
  \/ \E queue \in SUBQUEUES, current_hour \in MergeHours :
       BatchStatus(queue, current_hour)

SpecStatus == InitStatus /\ [][NextStatus]_vars

\* ---------------------------------------------------------------------------
\* detect_cell_color (schedule_color_parser.py 46-79)
\* ---------------------------------------------------------------------------

\* Average channel values around the two thresholds
ChannelValues == {0, 38, 39, 191, 229, 230, 255}

\* A cell image: an empty crop, or the averages of its B, G and R channels
CellImages ==
  {NoCell} \cup [empty : {FALSE}, b : ChannelValues, g : ChannelValues,
                 r : ChannelValues]

\* Variant: a difference equal to the threshold already counts as blue.
BlueFromThreshold(b, r) == b - r >= B_R_THRESHOLD

\* b_r_diff = b - r; if b_r_diff > 38
IsBlue(b, r) == b - r > B_R_THRESHOLD

\* if b < 230 and g < 230 and r < 230
IsDark(b, g, r) == b < BRIGHTNESS /\ g < BRIGHTNESS /\ r < BRIGHTNESS

detect_cell_color(cell_img) ==
  IF cell_img.empty THEN "white"
  ELSE IF IsBlue(cell_img.b, cell_img.r) THEN "blue"
  ELSE IF IsDark(cell_img.b, cell_img.g, cell_img.r) THEN "gray"
  ELSE "white"

DetectCellColor(cell_img) ==
  /\ cell' = cell_img
  /\ colour' = detect_cell_color(cell_img)
  /\ UNCHANGED <<image, schedule_data>>
  /\ UNCHANGED <<cacheVars, statusVars, notifyVars>>
  /\ UNCHANGED <<now, site, schedules, queue_notifications, jobs, annJobs, execs,
                 poll, recovered, delivered, failed, outageVars>>

NextColour == \E cell_img \in CellImages : DetectCellColor(cell_img)

SpecColour == Init /\ [][NextColour]_vars

\* ---------------------------------------------------------------------------
\* parse_schedule_table / parse_schedule_from_image
\* (schedule_color_parser.py 82-250)
\* ---------------------------------------------------------------------------

\* The crops a cell of the table may give: none when the cell lies outside the
\* image, else a blue, a gray or a white one, each at its threshold.
CellSamples ==
  {NoCell,
   [empty |-> FALSE, b |-> 230, g |-> 191, r |-> 191],
   [empty |-> FALSE, b |-> 229, g |-> 229, r |-> 191],
   [empty |-> FALSE, b |-> 230, g |-> 229, r |-> 229]}

\* An image: a crop for every hour column of every queue row
Images == [SUBQUEUES -> [0..(RowEnd - 1) -> CellSamples]]

\* if cell.size == 0: continue; color = detect_cell_color(cell)
RowColours(cells) ==
  [hour \in DOMAIN cells |->
     IF cells[hour].empty THEN "empty" ELSE detect_cell_color(cells[hour])]

\* Variant: a row without periods gets no entry.
RowsWithPeriods(rows) ==
  {q \in DOMAIN rows : rows[q].outages # <<>> \/ rows[q].possible # <<>>}

\* schedule_data[subqueue] = {'outages': ..., 'possible': ...} for every
\* subqueue of the loop
RowsEmitted(rows) == DOMAIN rows

parse_schedule_table(img) ==
  LET rows == [q \in SUBQUEUES |->
                 Periods(RowColours(img[q]), 0, NoStart, NoStart,
                         [outages |-> <<>>, possible |-> <<>>])]
  IN  [q \in RowsEmitted(rows) |-> rows[q]]

\* how parse_schedule_from_image ends: the table is parsed ("ok"), the
\* download fails ("download"), or the parse raises ("raise")
TableOutcomes == {"ok", "download", "raise"}

parse_table_from_image(img, outcome) ==
  IF outcome = "ok" THEN parse_schedule_table(img) ELSE NoHashes

InitTable ==
  /\ InitStores
  /\ InitClock
  /\ intervals = <<>>
  /\ parsed_data = NoHashes
  /\ image \in Images

\* one run of parse_schedule_from_image on the image
ParseScheduleFromImage(outcome) ==
  /\ schedule_data' = [outcome |-> outcome,
                       data |-> parse_table_from_image(image, outcome)]
  /\ UNCHANGED <<cell, colour, image>>
  /\ UNCHANGED <<cacheVars, statusVars, notifyVars>>
  /\ UNCHANGED <<now, site, schedules, queue_notifications, jobs, annJobs, execs,
                 poll, recovered, delivered, failed, outageVars>>

NextTable == \E outcome \in TableOutcomes : ParseScheduleFromImage(outcome)

SpecTable == InitTable /\ [][NextTable]_vars

\* ---------------------------------------------------------------------------
\* check_and_notify_announcements (scheduler.py 49-115, 510-718)
\* ---------------------------------------------------------------------------
\* pushes counted for one hash
MaxPushes == 2
\* batches of other announcements the site publishes
MaxBatches == 2
\* last_announcement_hashes is emptied when it holds more than 100 hashes
HASH_CACHE_LIMIT == 100
\* last_sent_paragraphs is cut down when it holds more than 200 hashes
PARAGRAPH_CACHE_LIMIT == 200
\* the number of paragraph hashes the cut keeps
PARAGRAPHS_KEPT == 100

\* Besides the announcements followed the page lists, now and then, a batch of
\* announcements it has not listed before, each with one paragraph of its own.
OTHER_BATCH == HASH_CACHE_LIMIT + 1

\* the paragraphs of full_body with 10 characters or more, by their hashes
Paragraphs(content_hash) == IF content_hash = 1 THEN {1} ELSE {1, 2}

\* the power-off windows parse_queue_times_from_announcement reads off a
\* paragraph: the first one can still be announced in time at 13:00, the
\* time of the second one has passed while its window is still open
ParagraphWindows(para_hash) ==
  IF para_hash = 1 THEN [queue |-> "3.1", start |-> 14, end |-> 16]
  ELSE [queue |-> "6.2", start |-> 13, end |-> 16]

\* queue_times of the filtered body, in the order of the paragraphs
RECURSIVE WindowsOf(_, _)
WindowsOf(new_paragraphs, p) ==
  IF p \notin ParagraphHashes THEN <<>>
  ELSE (IF p \in new_paragraphs THEN <<ParagraphWindows(p)>> ELSE <<>>)
         \o WindowsOf(new_paragraphs, p + 1)

\* the lists of announcements fetch_announcements may answer
Listings == {<<>>, <<1>>, <<2>>, <<1, 2>>, <<2, 1>>}

\* save_sent_hash_to_db: a row is added unless the hash is recorded
save_sent_hash_to_db(rows, hashes, type) == rows \cup {<<type, h>> : h \in hashes}

\* the job of one power-off window: armed for 10 minutes before the start,
\* skipped when that time has passed
AnnouncementJobs(jobset, w, t) ==
  LET notification_time == NotifyTime(Today(t), w.start)
  IN  IF notification_time < t THEN jobset
      ELSE jobset \cup {[date |-> Today(t), queue |-> w.queue, start |-> w.start,
                         end |-> w.end, possible |-> FALSE,
                         run |-> notification_time, created |-> t]}

\* the loop over queue_times: row stored unless it exists, job armed
RECURSIVE StoreWindows(_, _, _, _)
StoreWindows(st, ws, i, t) ==
  IF i > Len(ws) THEN st
  ELSE StoreWindows([st EXCEPT !.rows = RowsAfterStore(@, ws[i]),
                               !.applied = Append(@, ws[i]),
                               !.jobs = AnnouncementJobs(@, ws[i], t)],
                    ws, i + 1, t)

\* new_paragraphs: the paragraphs whose hash is not in last_sent_paragraphs
NewParagraphs(paragraphs, sent) == paragraphs \ sent

\* The loop body for one announcement.  st holds the two dictionaries, the
\* table of sent hashes, the pushes counted, the rows of announcement_outages
\* and the job store; success says whether send_to_all_users reached a device,
\* and only a push that did is counted.
ProcessAnnouncement(st, a, success, t) ==
  IF a \in st.hashes THEN st
  ELSE LET new_paragraphs == NewParagraphs(Paragraphs(a), st.paragraphs)
           seen == [st EXCEPT !.paragraphs = @ \cup new_paragraphs,
                              !.db = save_sent_hash_to_db(@, new_paragraphs, "paragraph")]
           remembered == [seen EXCEPT !.hashes = @ \cup {a},
                                      !.db = save_sent_hash_to_db(@, {a}, "general")]
           counted == [h \in AnnouncementHashes |->
                         IF h = a THEN st.apushes[h] + 1 ELSE st.apushes[h]]
           carried == [p \in ParagraphHashes |->
                         IF p \in new_paragraphs THEN st.ppushes[p] + 1
                         ELSE st.ppushes[p]]
       IN  IF new_paragraphs = {} THEN remembered
           ELSE IF ~success THEN seen
           ELSE StoreWindows([remembered EXCEPT !.apushes = counted,
                                                !.ppushes = carried],
                             WindowsOf(new_paragraphs, 1), 1, t)

RECURSIVE ProcessListing(_, _, _, _, _)
ProcessListing(st, listing, i, success, t) ==
  IF i > Len(listing) THEN st
  ELSE ProcessListing(ProcessAnnouncement(st, listing[i], success, t),
                      listing, i + 1, success, t)

\* One run of check_and_notify_announcements.  listing: the announcements
\* followed that the page lists; fresh: the other announcements it lists for
\* the first time; kept: the followed paragraphs among the 100 that the cut of
\* last_sent_paragraphs keeps (list(set)[-100:] takes them in no known order).
CheckAndNotifyAnnouncements(listing, fresh, success, kept) ==
  /\ Today(now) \in Dates
  /\ \A h \in AnnouncementHashes : announcement_pushes[h] < MaxPushes
  /\ \A p \in ParagraphHashes : paragraph_pushes[p] < MaxPushes
  /\ sent_others + fresh <= MaxBatches * OTHER_BATCH
  /\ LET st == ProcessListing(
                 [hashes |-> last_announcement_hashes,
                  paragraphs |-> last_sent_paragraphs,
                  db |-> sent_announcement_hashes,
                  apushes |-> announcement_pushes, ppushes |-> paragraph_pushes,
                  rows |-> announcement_outages, applied |-> applied,
                  jobs |-> annJobs],
                 listing, 1, success, now)
         hashes == Cardinality(st.hashes) + other_hashes + fresh
         paragraphs == Cardinality(st.paragraphs) + other_paragraphs + fresh
     IN  /\ sent_announcement_hashes' = st.db
         /\ sent_others' = sent_others + fresh
         /\ announcement_pushes' = st.apushes
         /\ paragraph_pushes' = st.ppushes
         /\ announcement_outages' = st.rows
         /\ applied' = st.applied
         /\ annJobs' = st.jobs
         /\ IF hashes > HASH_CACHE_LIMIT
              THEN /\ last_announcement_hashes' = {}
                   /\ other_hashes' = 0
              ELSE /\ last_announcement_hashes' = st.hashes
                   /\ other_hashes' = other_hashes + fresh
         /\ IF paragraphs > PARAGRAPH_CACHE_LIMIT
              THEN /\ kept \subseteq st.paragraphs
                   /\ last_sent_paragraphs' = kept
                   /\ other_paragraphs' = PARAGRAPHS_KEPT - Cardinality(kept)
              ELSE /\ kept = {}
                   /\ last_sent_paragraphs' = st.paragraphs
                   /\ other_paragraphs' = other_paragraphs + fresh
  /\ UNCHANGED <<now, site, schedules, queue_notifications, jobs, execs, poll,
                 recovered, delivered, failed, outageVars, cacheVars, cellVars,
                 stateVars, plannedVars>>
  /\ UNCHANGED <<intervals, merged, parsed_data, query, status, outage_status>>

NextAnnouncements ==
  \/ \E listing \in Listings, fresh \in {0, OTHER_BATCH}, success \in BOOLEAN,
        kept \in SUBSET ParagraphHashes :
       CheckAndNotifyAnnouncements(listing, fresh, success, kept)
  \/ Restart

SpecAnnouncements == Init /\ [][NextAnnouncements]_vars

\* ---------------------------------------------------------------------------
\* Status queries on the stored schedule of today (api/batch_routes.py 66-288,
\* api/schedule_routes.py 78-256)
\* ---------------------------------------------------------------------------

\* The instants a poll or a query is made at: those of the scheduler and, on
\* every day, 20:00 and the last minute of the day.
QueryInstants == Instants \cup {DayStart(d) + m : d \in Dates, m \in {1200, 1439}}

\* current_hour = now.hour + now.minute / 60.0, kept in minutes
CurrentMinute(t) == t % (HOURS * 60)

\* start_hour <= current_hour < end_hour
CoversNow(interval, t) ==
  interval[1] * 60 <= CurrentMinute(t) /\ CurrentMinute(t) < interval[2] * 60

\* crud_schedules.get_schedule_by_date(db, date.today())
ScheduleOfToday(tbl, t) == IF Today(t) \in Dates THEN tbl[Today(t)] ELSE NoRow

\* json.loads(schedule.parsed_data)[queue][kind]: the periods of a queue row
\* as parse_schedule_table appended them, in hour order
StoredPeriods(data, queue, possible) ==
  LET S == {<<c.start, c.end>> : c \in {x \in data.ivs : x.queue = queue
                                                        /\ x.possible = possible}}
  IN  CHOOSE s \in [1..Cardinality(S) -> S] :
        \A i, j \in 1..Cardinality(S) : i < j => s[i][1] < s[j][1]

\* queue_schedules_tuples.get(queue) of get_batch_status: the stored dict of
\* the queue with its lists turned into tuples
UserData(data, queue) ==
  [outages |-> StoredPeriods(data, queue, FALSE),
   possible |-> StoredPeriods(data, queue, TRUE)]

\* get_batch_status for one address of the queue, asked without a date.
\* Without a schedule row, with a row that holds no parsed data, or with a
\* schedule that does not list the queue, the answer is has_power = True.
GetBatchStatus(queue) ==
  LET schedule == ScheduleOfToday(schedules, now)
      found == /\ Found(schedule)
               /\ ~schedule.isnull
               /\ queue \in schedule.data.keys
      user_data == IF found THEN UserData(schedule.data, queue)
                   ELSE [outages |-> <<>>, possible |-> <<>>]
      possible_intervals == user_data.possible
      user_intervals == IF found
                        THEN UserIntervals(user_data, announcement_outages, queue)
                        ELSE <<>>
      all_intervals == user_intervals \o possible_intervals
      covering == {i \in 1..Len(all_intervals) : CoversNow(all_intervals[i], now)}
  IN  /\ query' = [queue |-> queue, outages |-> user_data.outages,
                   possible |-> possible_intervals, hour |-> now,
                   applied |-> applied]
      /\ status' =
           [answered |-> TRUE,
            has_power |-> covering = {},
            user_intervals |-> user_intervals,
            upcoming_outages |->
              [i \in 1..Len(all_intervals) |->
                 [start_hour |-> all_intervals[i][1],
                  end_hour |-> all_intervals[i][2],
                  is_possible |-> IsPossibleOutage(all_intervals[i], possible_intervals)]],
            until |-> IF covering = {} THEN {}
                      ELSE {all_intervals[CHOOSE i \in covering :
                                            \A j \in covering : j <= i][2]}]
      /\ UNCHANGED <<intervals, merged, parsed_data, announcement_outages, applied,
                     outage_status>>
      /\ UNCHANGED <<cacheVars, cellVars, notifyVars>>
      /\ UNCHANGED <<now, site, schedules, queue_notifications, jobs, annJobs,
                     execs, poll, recovered, delivered, failed, outageVars>>

\* The conversion loop of get_outage_status, `for q, intervals in
\* queue_schedules.items(): [tuple(i) if isinstance(i, list) else i for i in
\* intervals]`, on the stored format: intervals is the dict of the queue, and
\* iterating a dict yields its keys, so user_intervals is the list of the two
\* key strings.  chars is the length of the string.
QueueSchedulesTuples(data, queue) ==
  IF queue \in data.keys
    THEN << [key |-> "outages", chars |-> 7], [key |-> "possible", chars |-> 8] >>
    ELSE <<>>

\* `for start, end in user_intervals`: an element unpacks into two values
\* only when it has two items; any other length raises ValueError
Unpacks(element) == element.chars = 2

\* get_outage_status for an address of the queue, asked without a date.
\* recognized_text is always stored empty.  The ValueError of the unpacking
\* is caught by the handler, which answers has_power = True.  The answer is
\* kept with the queue and the time of the query and the row it read.
GetOutageStatus(queue) ==
  LET schedule == ScheduleOfToday(schedules, now)
      user_intervals == QueueSchedulesTuples(schedule.data, queue)
      asked == [answered |-> TRUE, queue |-> queue, hour |-> now,
                schedule |-> schedule, has_power |-> TRUE, message |-> "none"]
  IN  /\ outage_status' =
           IF ~Found(schedule) THEN [asked EXCEPT !.message = "missing"]
           ELSE IF schedule.isnull THEN [asked EXCEPT !.message = "unrecognised"]
           ELSE IF user_intervals = <<>> THEN [asked EXCEPT !.message = "not found"]
           ELSE IF \E i \in 1..Len(user_intervals) : ~Unpacks(user_intervals[i])
             THEN [asked EXCEPT !.message = "error"]
           ELSE [asked EXCEPT !.message = "no outages"]
      /\ UNCHANGED <<intervals, merged, parsed_data, announcement_outages, applied,
                     query, status>>
      /\ UNCHANGED <<cacheVars, cellVars, notifyVars>>
      /\ UNCHANGED <<now, site, schedules, queue_notifications, jobs, annJobs,
                     execs, poll, recovered, delivered, failed, outageVars>>

\* The states a poll or a query may meet after a restart at one of the
\* instants: no timer is set, the site shows some image of the date, and the
\* table holds no row of the date or the row an earlier poll wrote for that
\* image or an older one, with whatever its parse returned.
InitQuery ==
  /\ InitStores
  /\ intervals = <<>>
  /\ parsed_data = NoHashes
  /\ image = NoHashes
  /\ NoTimers
  /\ now \in QueryInstants
  /\ site \in [Dates -> 1..NumImages]
  /\ schedules \in
       [Dates -> {NoRow} \cup
                 {create_schedule(NoRow, img, parse_schedule_from_image(img, o)) :
                    img \in 1..NumImages, o \in ParseOutcomes}]
  /\ \A d \in Dates : schedules[d].present => schedules[d].hash <= site[d]

NextQuery ==
  \/ \E th \in Threads : SendCheck(th)
  \/ \E th \in Threads : SendInsert(th)
  \/ \E th \in Threads, o \in DeliveryOutcomes : SendDeliver(th, o)
  \/ \E f \in BOOLEAN : PollFetch(f)
  \/ \E d \in Dates, o \in ParseOutcomes : PollDate(d, o)
  \/ PollCancel
  \/ \E iv \in poll.ivs : PollArm(iv)
  \/ PollNext
  \/ PollReturn
  \/ \E queue \in SUBQUEUES : GetBatchStatus(queue)
  \/ \E queue \in SUBQUEUES : GetOutageStatus(queue)

SpecQuery == InitQuery /\ [][NextQuery]_vars

\* ---------------------------------------------------------------------------
\* The job store under schedule_queue_notifications (scheduler.py 373-440)
\* ---------------------------------------------------------------------------

\* the interval a timer was set for
IntervalOf(j) == [queue |-> j.queue, start |-> j.start, end |-> j.end,
                  possible |-> j.possible]

\* the timer _create_notification_job sets for an interval of a date
QueueJob(d, iv) ==
  [date |-> d, queue |-> iv.queue, start |-> iv.start, end |-> iv.end,
   possible |-> iv.possible, run |-> NotifyTime(d, iv.start)]

\* The day after the dates of the table: its schedule has timers in the store.
NextDate == Cardinality(Dates)

\* The job stores a poll may meet at 13:00 or 13:50 of day 0: timers of the
\* stored schedule of a date that have not fired, timers of the schedule of
\* the next day, the timers of announced windows and of outage records.
InitTimers ==
  /\ InitStores
  /\ intervals = <<>>
  /\ parsed_data = NoHashes
  /\ image = NoHashes
  /\ now \in {780, 830}
  /\ site \in [Dates -> 1..NumImages]
  /\ schedules \in
       [Dates -> {NoRow} \cup
                 {create_schedule(NoRow, img, parse_schedule_from_image(img, "ok")) :
                    img \in 1..NumImages}]
  /\ \A d \in Dates : schedules[d].present => schedules[d].hash <= site[d]
  /\ jobs \in SUBSET ({QueueJob(d, iv) : d \in Dates, iv \in ImageCells(NumImages)}
                        \cup {QueueJob(NextDate, Cells[1])})
  /\ \A j \in jobs : j.date \in Dates =>
                       /\ IntervalOf(j) \in schedules[j.date].data.ivs
                       /\ j.run >= now
  /\ annJobs \in SUBSET {[date |-> Today(now), queue |-> w.queue, start |-> w.start,
                          end |-> w.end, possible |-> FALSE,
                          run |-> NotifyTime(Today(now), w.start), created |-> 780] :
                           w \in AnnouncedWindows}
  /\ outageJobs \in SUBSET {[id |-> 1, run |-> OutageWindow.start_time - 10]}

NextTimers ==
  \/ \E th \in Threads : SendCheck(th)
  \/ \E th \in Threads : SendInsert(th)
  \/ \E th \in Threads, o \in DeliveryOutcomes : SendDeliver(th, o)
  \/ \E f \in BOOLEAN : PollFetch(f)
  \/ \E d \in Dates, o \in ParseOutcomes : PollDate(d, o)
  \/ PollCancel
  \/ \E iv \in poll.ivs : PollArm(iv)
  \/ PollNext
  \/ PollReturn

SpecTimers == InitTimers /\ [][NextTimers]_vars

\* ---------------------------------------------------------------------------
\* The running scheduler (scheduler.py 2034-2132): the interval job of
\* update_schedules keeps coming, the pool threads run the jobs that are due,
\* time goes on, the process is not restarted and the site keeps its images.
\* ---------------------------------------------------------------------------

\* the site may show any image of a date when the service starts
InitLive ==
  /\ InitStores
  /\ intervals = <<>>
  /\ parsed_data = NoHashes
  /\ image = NoHashes
  /\ now = 780
  /\ site \in [Dates -> 1..NumImages]
  /\ schedules = [d \in Dates |-> NoRow]
  /\ NoTimers

\* the steps of one thread through send_queue_notification
SendSteps(th) ==
  \/ SendCheck(th)
  \/ SendInsert(th)
  \/ SendRollback(th)
  \/ \E o \in DeliveryOutcomes : SendDeliver(th, o)

\* a run of update_schedules, from the fetch to the return
PollSteps ==
  \/ \E f \in BOOLEAN : PollFetch(f)
  \/ \E d \in Dates, o \in ParseOutcomes : PollDate(d, o)
  \/ PollCancel
  \/ \E iv \in poll.ivs : PollArm(iv)
  \/ PollNext
  \/ PollReturn

\* a due date job is handed to a pool thread
TimerFires == \E j \in jobs, th \in Workers : JobFire(j, th)

TimePasses == \E t \in Instants : Tick(t)

NextLive ==
  \/ \E th \in Threads : SendSteps(th)
  \/ PollSteps
  \/ TimerFires
  \/ TimePasses

\* Every thread goes on with the call it is in, a due job is run, a started
\* poll goes on and the next one comes, and the clock is not held up for ever.
Fairness ==
  /\ \A th \in Threads : WF_vars(SendSteps(th))
  /\ WF_vars(PollSteps)
  /\ WF_vars(TimerFires)
  /\ SF_vars(TimePasses)

SpecLive == InitLive /\ [][NextLive]_vars /\ Fairness

\* ================================================================ claims
Delivering(k) == {th \in Threads : execs[th].pc = "deliver" /\ KeyOf(execs[th]) = k}
StoredIntervals(d) == schedules[d].data.ivs

\* C1: for every (date, queue, hour) key the push delivery of
\* send_queue_notification is invoked at most once, over any sequence of timer
\* fires, immediate sends, schedule replacements and restarts.
C1_AtMostOnePush == \A k \in Keys : delivered[k] <= 1

\* C1 witness: a key that was pushed is fired again under a replaced schedule.
C1_RefireAfterReplacement ==
  \E th \in Threads :
    /\ execs[th].pc = "check"
    /\ delivered[KeyOf(execs[th])] = 1
    /\ schedules[execs[th].date].hash > 1
    /\ IntervalOf(execs[th]) \in StoredIntervals(execs[th].date)

\* C2: concurrent executions of the timer-fire path for one key leave exactly
\* one ledger row for the key and make at most one delivery call: no key has
\* two rows, at most one execution ever gets to deliver for it, and both the
\* execution that delivers and the one that lost the insert see the one row.
C2_ConcurrentFires ==
  \A k \in Keys :
    /\ queue_notifications[k] <= 1
    /\ Cardinality(Delivering(k)) + delivered[k] <= 1
    /\ \A th \in Threads :
         (execs[th].pc \in {"deliver", "rollback"} /\ KeyOf(execs[th]) = k)
           => queue_notifications[k] = 1

\* C2 witness: two executions passed the dedup query for the same key with no
\* row; one inserted and is delivering, the other lost the insert.
C2_BothPassedTheQuery ==
  \E t1 \in Threads, t2 \in Threads :
    /\ t1 # t2
    /\ KeyOf(execs[t1]) = KeyOf(execs[t2])
    /\ execs[t1].pc = "deliver"
    /\ execs[t2].pc = "rollback"

\* C3: the delivery call is made only by an execution that has committed the
\* ledger row of the key itself; one that found the row present, or whose
\* insert conflicted, never reaches the delivery.
C3_DeliveryAfterOwnCommit ==
  \A th \in Threads :
    execs[th].pc = "deliver" =>
      /\ execs[th].committed
      /\ queue_notifications[KeyOf(execs[th])] >= 1

\* C3 witness: one execution delivers after its commit while another one is at
\* the dedup query for the same key and will find the row.
C3_LateQueryFindsRow ==
  \E t1 \in Threads, t2 \in Threads :
    /\ execs[t1].pc = "deliver"
    /\ execs[t1].committed
    /\ execs[t2].pc = "check"
    /\ KeyOf(execs[t1]) = KeyOf(execs[t2])

\* C4: a delivery that raises or reaches no device leaves the ledger row in
\* place, and no later fire for the key delivers again.
C4_FailureKeepsRow ==
  \A k \in failed : queue_notifications[k] = 1 /\ delivered[k] = 1

\* C4 witness: the key of a failed delivery is fired again.
C4_FireAfterFailure ==
  \E th \in Threads : execs[th].pc = "check" /\ KeyOf(execs[th]) \in failed

\* C5: for every outage record the pushes are sent by at most one execution
\* of send_outage_notification, however the executions for it interleave.
C5_OneExecutionPushes == \A id \in Outages : pushed[id] <= 1

\* C6: once the first poll after a start of the process has returned, every
\* stored interval whose notification time is still ahead has its timer.
C6_TimersFromDurableState ==
  (poll.pc = "idle" /\ recovered) =>
    \A d \in Dates : \A iv \in StoredIntervals(d) :
      (DayStart(d) + iv.start * 60 - 10 > now) =>
        \E j \in jobs : j.date = d /\ IntervalOf(j) = iv

\* C7: once a poll has returned, no pending timer of a date stands for an
\* interval that the stored schedule of the date does not have.
C7_NoTimerOfSupersededVersion ==
  poll.pc = "idle" =>
    \A j \in jobs : IntervalOf(j) \in StoredIntervals(j.date)

\* C8: no timer fires for an interval that the successfully parsed schedule
\* recorded in the store does not have.
C8_NoStaleFire ==
  [][\A j \in jobs : \A th \in Workers :
       ( /\ j \notin jobs'
         /\ execs[th].pc = "idle"
         /\ execs'[th].pc = "check"
         /\ KeyOf(execs'[th]) = KeyOf(j)
         /\ schedules[j.date].data.keys = SUBQUEUES )
       => IntervalOf(j) \in StoredIntervals(j.date)]_vars

\* C9: for the interval a pass of the scheduling loop handles, a timer is set
\* to start minus 10 minutes when that time is ahead; otherwise the push is
\* sent at once when the interval has not ended, and nothing is done when it
\* has.
C9_TimerOrImmediateOrDiscard ==
  [][(poll.pc = "arm" /\ poll'.pc = "arm" /\ poll'.ivs # poll.ivs) =>
       \A iv \in poll.ivs \ poll'.ivs :
         LET d == poll.date
             ct == poll.current_time
             due == d * 1440 + iv.start * 60 - 10
             over == d * 1440 + iv.end * 60
             j == [date |-> d, queue |-> iv.queue, start |-> iv.start,
                   end |-> iv.end, possible |-> iv.possible, run |-> due]
         IN  /\ due > ct => (j \in jobs' /\ execs' = execs)
             /\ (due <= ct /\ over > ct) =>
                  /\ jobs' = jobs
                  /\ execs'[PollThread].pc = "check"
                  /\ KeyOf(execs'[PollThread]) = <<d, iv.queue, iv.start>>
             /\ (due <= ct /\ over <= ct) => (jobs' = jobs /\ execs' = execs)]_vars

\* C9 witness: the loop meets an interval whose notification time has passed
\* and which has not ended, and sends its push at once.
C9_LateIntervalSentAtOnce ==
  /\ poll.pc = "arm"
  /\ execs[PollThread].pc = "check"
  /\ poll.date * 1440 + execs[PollThread].start * 60 - 10 < poll.current_time
  /\ IntervalOf(execs[PollThread]) \in poll.parsed.ivs \ poll.ivs

\* C10: a poll whose parse failed leaves the stored intervals of the date as
\* they were.
C10_FailedParseKeepsSchedule ==
  [][\A d \in Dates :
       ( /\ poll.pc = "date"
         /\ poll'.pc = "cancel"
         /\ poll'.date = d
         /\ poll'.outcome \in {"fail", "mismatch"}
         /\ schedules[d].present
         /\ schedules[d].data.ivs # {} )
       => schedules'[d].data = schedules[d].data]_vars


\* C11: a poll in which the request for a region times out or answers an HTTP
\* error leaves the active outage rows of that region as they were.
C11_FailedFetchKeepsRows ==
  [][lastCall'.outcome = "poll" =>
       \A rem \in Regions :
         lastCall'.fetch[rem].outcome = "timeout" =>
           {o \in active_outages' : o[1] = rem} = {o \in active_outages : o[1] = rem}]_vars

\* C12: has_page_changed returns true for a key it sees for the first time,
\* and false when the content is the one passed in the call before for the key.
C12_TrueThenFalse ==
  [][(lastCall' # lastCall /\ lastCall'.outcome \in {"ok", "broken"}) =>
       LET k == lastCall'.key
       IN  /\ k \notin DOMAIN lastContent => lastCall'.changed
           /\ (k \in DOMAIN lastContent /\ lastContent[k] = lastCall'.content)
                => ~lastCall'.changed]_vars

\* C12 witness: the second of two calls with the same key and content has
\* returned false.
C12_SecondCallUnchanged ==
  /\ lastCall.outcome = "ok"
  /\ ~lastCall.changed
  /\ lastCall.key \in DOMAIN page_hashes

\* C13: for a key observed before, a call with content of the stored hash
\* returns false and leaves the dictionary as it was, any other call stores
\* the new hash for the key and returns true; and the stored hash of a key is
\* always the hash of the last content passed for it.
C13_MatchKeepsMismatchStores ==
  /\ [](\A k \in DOMAIN page_hashes :
          k \in DOMAIN lastContent /\ page_hashes[k] = get_content_hash(lastContent[k]))
  /\ [][(lastCall' # lastCall /\ lastCall'.outcome \in {"ok", "broken"}
           /\ lastCall'.key \in DOMAIN page_hashes) =>
          LET k == lastCall'.key
              h == get_content_hash(lastCall'.content)
          IN  IF page_hashes[k] = h
                THEN ~lastCall'.changed /\ page_hashes' = page_hashes
                ELSE /\ lastCall'.changed
                     /\ page_hashes' = [page_hashes EXCEPT ![k] = h]]_vars

\* C13 witness: a key observed before was passed a different content and its
\* hash was replaced.
C13_HashReplaced ==
  /\ lastCall.outcome = "ok"
  /\ lastCall.changed
  /\ ~lastCall.first

\* C14: a call for one key changes neither the stored hash of another key nor
\* what a later call for the other key returns.
C14_KeysIndependent ==
  [][lastCall'.outcome \in FetchOutcomes =>
       \A other \in Regions \ {lastCall'.key} :
         /\ (other \in DOMAIN page_hashes') = (other \in DOMAIN page_hashes)
         /\ other \in DOMAIN page_hashes => page_hashes'[other] = page_hashes[other]
         /\ \A c \in Contents :
              has_page_changed(page_hashes', other, c)
                = has_page_changed(page_hashes, other, c)]_vars

\* C14 witness: two keys are stored with different hashes, the last call having
\* replaced the hash of one of them.
C14_TwoKeysStored ==
  /\ lastCall.outcome = "ok"
  /\ lastCall.changed
  /\ \E other \in DOMAIN page_hashes :
       /\ other # lastCall.key
       /\ page_hashes[other] # page_hashes[lastCall.key]

\* C15: a run of parse_outages whose request fails leaves the dictionary of
\* hashes as it was, and a hash is written only for the key of a run whose
\* request came back with a page.
C15_HashWrittenAfterFetch ==
  [][/\ lastCall'.outcome = "timeout" => page_hashes' = page_hashes
     /\ \A k \in DOMAIN page_hashes' :
          (k \notin DOMAIN page_hashes \/ page_hashes'[k] # page_hashes[k])
            => (lastCall'.key = k /\ lastCall'.outcome \in {"ok", "broken"})]_vars

\* C15 witness: the request failed while the site serves a page other than the
\* one the stored hash stands for.
C15_FailedPollOfChangedPage ==
  /\ lastCall.outcome = "timeout"
  /\ lastCall.key \in DOMAIN page_hashes
  /\ page_hashes[lastCall.key] # get_content_hash(lastCall.content)

\* C16: merging is idempotent on non-empty lists: merging the result of a
\* merge once more gives that same result.
C16_MergeIdempotent ==
  intervals # <<>> => merge_overlapping_intervals(merged) = merged

\* C16 witness: a call that joined some of its intervals and kept more than one.
C16_MergedShorterList ==
  /\ Len(merged) >= 2
  /\ Len(merged) < Len(intervals)

\* C17: the merged list is ordered by start, and no interval that comes before
\* another one in it ends at or after the start of that other one.
C17_SortedAndSeparated ==
  \A i, j \in 1..Len(merged) :
    i < j => /\ merged[i][1] <= merged[j][1]
             /\ merged[i][2] < merged[j][1]

\* C17 witness: two touching intervals given out of order were joined into one.
C17_TouchingJoined ==
  /\ Len(intervals) = 2
  /\ intervals[1][1] > intervals[2][1]
  /\ intervals[2][2] = intervals[1][1]
  /\ Len(merged) = 1

\* The windows of a sequence of applications, each kept once, in the order of
\* their first application.
RECURSIVE OnceEach(_)
OnceEach(ws) ==
  IF ws = <<>> THEN <<>>
  ELSE LET before == OnceEach(SubSeq(ws, 1, Len(ws) - 1))
           w == ws[Len(ws)]
       IN  IF \E i \in 1..Len(before) : before[i] = w THEN before
           ELSE Append(before, w)

\* C18: adding announcement outages to the guaranteed intervals of a queue is
\* idempotent: the merged intervals a query gets after the same (date, queue,
\* start, end) window was applied more than once are those it gets with
\* every window applied once.
C18_SameWindowTwiceAsOnce ==
  (status.answered /\ query.queue \in DOMAIN parsed_data) =>
    status.user_intervals =
      UserIntervals(parsed_data[query.queue], OnceEach(query.applied), query.queue)

\* C18 witness: a query of a queue answered after one of its windows was
\* applied twice.
C18_QueryAfterRepeatedWindow ==
  /\ status.answered
  /\ query.queue \in DOMAIN parsed_data
  /\ \E i, j \in 1..Len(query.applied) :
       /\ i < j
       /\ query.applied[i] = query.applied[j]
       /\ query.applied[i].queue = query.queue

\* C19: a status query at an hour covered by a guaranteed interval and by a
\* possible interval of the queue reports a guaranteed outage: no power, and
\* an interval covering the hour that is not flagged as possible.
C19_GuaranteedBeforePossible ==
  ( /\ status.answered
    /\ \E i \in 1..Len(status.user_intervals) :
         Covers(status.user_intervals[i], query.hour)
    /\ \E i \in 1..Len(query.possible) : Covers(query.possible[i], query.hour) )
  => /\ ~status.has_power
     /\ \E i \in 1..Len(status.upcoming_outages) :
          /\ Covers(<<status.upcoming_outages[i].start_hour,
                      status.upcoming_outages[i].end_hour>>, query.hour)
          /\ ~status.upcoming_outages[i].is_possible

\* C20: a cell with pixels is 'blue' exactly when its average blue exceeds its
\* average red by more than 38; if not, it is 'gray' exactly when blue, green
\* and red are all below 230; in every other case it is 'white'.
C20_ColourByThresholds ==
  ~cell.empty =>
    LET blue == cell.b - cell.r > 38
        dark == cell.b < 230 /\ cell.g < 230 /\ cell.r < 230
    IN  /\ colour = "blue" <=> blue
        /\ colour = "gray" <=> (~blue /\ dark)
        /\ colour = "white" <=> (~blue /\ ~dark)

\* C20 witness: a dark cell whose blue exceeds its red by exactly 38 is gray.
C20_GrayAtThreshold ==
  /\ ~cell.empty
  /\ cell.b - cell.r = 38
  /\ cell.g < 230
  /\ colour = "gray"

\* The colour of the cell of queue q at hour h in the image
ColourOf(q, h) == RowColours(image[q])[h]

\* The maximal runs of cells of one colour in the row of queue q
MaximalRuns(q, kind) ==
  {run \in (0..RowEnd) \X (0..RowEnd) :
     /\ run[1] < run[2]
     /\ \A h \in run[1]..(run[2] - 1) : ColourOf(q, h) = kind
     /\ run[1] = 0 \/ ColourOf(q, run[1] - 1) # kind
     /\ run[2] = RowEnd \/ ColourOf(q, run[2]) # kind}

Elements(list) == {list[i] : i \in 1..Len(list)}

\* C21: for a row whose cells are all classified, the intervals of a kind are
\* the maximal runs of cells of that kind, each emitted once: a cell of
\* another colour closes the run and a run open after the last hour closes at
\* the end of the row.
C21_OneIntervalPerRun ==
  schedule_data.outcome = "ok" =>
    \A q \in SUBQUEUES :
      (\A h \in 0..(RowEnd - 1) : ColourOf(q, h) # "empty") =>
        LET periods == schedule_data.data[q]
        IN  /\ Elements(periods.outages) = MaximalRuns(q, "blue")
            /\ Len(periods.outages) = Cardinality(MaximalRuns(q, "blue"))
            /\ Elements(periods.possible) = MaximalRuns(q, "gray")
            /\ Len(periods.possible) = Cardinality(MaximalRuns(q, "gray"))

\* C21 witness: one blue run in the row of 3.1, open at the end of the row,
\* and a white row for 6.2.
C21_SingleRunToTheEnd ==
  /\ schedule_data.outcome = "ok"
  /\ \A h \in 0..(RowEnd - 1) : ColourOf("6.2", h) = "white"
  /\ ColourOf("3.1", 0) = "white"
  /\ \A h \in 1..(RowEnd - 1) : ColourOf("3.1", h) = "blue"
  /\ schedule_data.data["3.1"] = [outages |-> <<<<1, RowEnd>>>>, possible |-> <<>>]
  /\ schedule_data.data["6.2"] = [outages |-> <<>>, possible |-> <<>>]

\* C22: a successful parse has an entry for every queue row of the table,
\* with empty lists where nothing was detected.
C22_EveryQueueHasEntry ==
  schedule_data.outcome = "ok" => DOMAIN schedule_data.data = SUBQUEUES

\* C22 witness: a parsed image with a row in which no outage was detected.
C22_EmptyRowEmitted ==
  /\ schedule_data.outcome = "ok"
  /\ \E q \in SUBQUEUES :
       /\ \A h \in 0..(RowEnd - 1) : ColourOf(q, h) = "white"
       /\ schedule_data.data[q] = [outages |-> <<>>, possible |-> <<>>]
  /\ \E q \in SUBQUEUES : schedule_data.data[q].outages # <<>>

\* One list of periods is in ascending order, its periods apart from each other
Ascending(periods) ==
  \A i, j \in 1..Len(periods) : i < j => periods[i][2] < periods[j][1]

\* C28: for every image the periods of a parsed table lie within the row and
\* are not empty (0 <= start < end <= row end), the periods of one kind are
\* in ascending order and neither overlap nor touch, and no hour is covered
\* by an outage and by a possible outage of the same queue.
C28_PeriodsWellFormed ==
  schedule_data.outcome = "ok" =>
    \A q \in SUBQUEUES :
      LET periods == schedule_data.data[q]
          both == Elements(periods.outages) \cup Elements(periods.possible)
      IN  /\ \A p \in both : 0 <= p[1] /\ p[1] < p[2] /\ p[2] <= RowEnd
          /\ Ascending(periods.outages)
          /\ Ascending(periods.possible)
          /\ \A h \in 0..(RowEnd - 1) :
               ~ ( /\ \E p \in Elements(periods.outages) : Covers(p, h)
                   /\ \E p \in Elements(periods.possible) : Covers(p, h) )

\* C28 witness: a row with a crop without pixels between a blue and a gray
\* cell, parsed into an outage followed by a possible outage.
C28_RunAcrossMissingCell ==
  /\ schedule_data.outcome = "ok"
  /\ \E q \in SUBQUEUES :
       /\ ColourOf(q, 0) = "blue"
       /\ ColourOf(q, 1) = "empty"
       /\ ColourOf(q, 2) = "gray"
       /\ schedule_data.data[q].outages = <<<<0, 2>>>>
       /\ schedule_data.data[q].possible = <<<<2, RowEnd>>>>


\* C23: the table schedules never holds more than one active row for a date,
\* and a poll that finds the row of a date writes that row instead of adding
\* one.
C23_OneActiveRowPerDate ==
  /\ [](\A d \in Dates : schedules[d].rows <= 1)
  /\ [][\A d \in Dates :
          schedules[d].present => schedules'[d].rows <= schedules[d].rows]_vars

\* C23 witness: the poll found the row of the date, parsed the image that
\* replaced the stored one and wrote the row; the date still has one row.
C23_RowUpdatedInPlace ==
  /\ poll.pc = "cancel"
  /\ poll.existing
  /\ poll.outcome = "ok"
  /\ schedules[poll.date].hash = 2
  /\ schedules[poll.date].rows = 1


\* C25: a run of update_planned_outages adds only fetched outages that are
\* not active, deactivates only active outages that were not fetched, leaves
\* an outage that is both active and fetched as it was (its
\* notification_sent_at included), and when the fetched outages are the active
\* ones it writes nothing and hands nothing to the notification.
C25_OnlyTheDifferenceIsWritten ==
  [][lastPlanned'.result # "none" =>
       LET fetched == lastPlanned'.items
       IN  /\ (planned_outages' \ planned_outages) \subseteq (fetched \ planned_outages)
           /\ (planned_outages \ planned_outages') \subseteq (planned_outages \ fetched)
           /\ \A o \in planned_outages \cap fetched :
                /\ o \in planned_outages'
                /\ (o \in notification_sent_at') = (o \in notification_sent_at)
           /\ (lastPlanned'.result = "list" /\ fetched = planned_outages) =>
                /\ planned_outages' = planned_outages
                /\ notification_sent_at' = notification_sent_at
                /\ lastPlanned'.new_outages_list = {}]_vars

\* C25 witness: the run added an outage and kept another one, fetched again,
\* whose notification had been sent.
C25_AddedAndKept ==
  /\ lastPlanned.result = "list"
  /\ lastPlanned.new_outages_list # {}
  /\ \E o \in lastPlanned.items \ lastPlanned.new_outages_list :
       o \in planned_outages /\ o \in notification_sent_at


\* C26: every 'no schedule for tomorrow' push counts a day: the run of
\* check_tomorrow_schedule_and_notify that sends it leaves
\* consecutive_days_without_schedule one higher, and the notification is
\* switched off when the counter reaches the limit.
C26_PushCountsADay ==
  [][(tomorrow_check' # tomorrow_check /\ tomorrow_check'.outcome = "pushed") =>
       /\ no_schedule_state'.consecutive_days_without_schedule =
            no_schedule_state.consecutive_days_without_schedule + 1
       /\ no_schedule_state'.consecutive_days_without_schedule >= NO_SCHEDULE_LIMIT
            => ~no_schedule_state'.enabled]_vars

\* C27: a run of update_schedules that stores the first row of a date of today
\* or later puts the date on new_dates_added, and a run that returns with a
\* date on it leaves the no-schedule state enabled with the counter at 0.
C27_NewScheduleResetsState ==
  [][/\ \A d \in Dates :
          (~schedules[d].present /\ schedules'[d].present /\ d >= Today(now))
            => d \in poll'.new_dates_added
     /\ (poll.pc = "date" /\ poll.new_dates_added # {} /\ poll'.pc = "idle")
          => no_schedule_state' = EnabledState]_vars

\* C27 witness: the notification had been switched off, and the run that
\* stored the first row of today's date switched it on again.
C27_SwitchedOnAgain ==
  /\ no_schedule_write = [by |-> "reset", before |-> FALSE]
  /\ no_schedule_state = EnabledState
  /\ \E d \in Dates : d = Today(now) /\ schedules[d].present

\* C30: the notification of an announcement outage is deduplicated under a key
\* of its own: while the only ledger row of a (date, queue, hour) is the one a
\* schedule-derived execution has committed, the dedup query does not end an
\* execution that an announcement job started for the same date, queue and
\* hour.
C30_OwnLedgerKey ==
  [][\A th \in Threads, other \in Threads :
       ( /\ execs[th].pc = "check"
         /\ execs[th].announcement
         /\ execs[other].pc = "deliver"
         /\ execs[other].committed
         /\ ~execs[other].announcement
         /\ KeyOf(execs[other]) = KeyOf(execs[th])
         /\ queue_notifications[KeyOf(execs[th])] = 1 )
       => execs'[th].pc # "idle"]_vars


\* C24: over any sequence of runs of check_and_notify_announcements, restarts
\* and clean-ups of the dictionaries included, an announcement is pushed at
\* most once and a paragraph is carried by at most one push.
C24_PushedAtMostOnce ==
  /\ \A h \in AnnouncementHashes : announcement_pushes[h] <= 1
  /\ \A p \in ParagraphHashes : paragraph_pushes[p] <= 1

\* C29: when a run of check_and_notify_announcements processes a power-off
\* window whose notification time (start - 10 minutes) has passed while the
\* window has not ended, an execution of send_queue_notification is started
\* for it at once.
C29_LateWindowSentAtOnce ==
  [][\A i \in (Len(applied) + 1)..Len(applied') :
       LET w == applied'[i]
       IN  ( /\ NotifyTime(Today(now), w.start) < now
             /\ StillRunning(OutageEnd(Today(now), w.end), now) )
           => \E th \in Threads :
                /\ execs'[th].pc # "idle"
                /\ KeyOf(execs'[th]) = <<Today(now), w.queue, w.start>>]_vars

\* C31: an interval (s, 24) ends at midnight in both places that compare its
\* end with the current time: a scheduling pass that meets it on its day at or
\* after s:00 minus 10 minutes sends its push at once, and a batch status
\* query made on its day at or after s:00 answers has_power = False.
C31_EndOfDayIntervalUniform ==
  [][ /\ (poll.pc = "arm" /\ poll'.pc = "arm" /\ poll'.ivs # poll.ivs) =>
           \A iv \in poll.ivs \ poll'.ivs :
             ( /\ iv.end = 24
               /\ poll.date * 1440 + iv.start * 60 - 10 <= poll.current_time
               /\ poll.current_time < (poll.date + 1) * 1440 )
             => /\ jobs' = jobs
                /\ execs'[PollThread].pc = "check"
                /\ KeyOf(execs'[PollThread]) = <<poll.date, iv.queue, iv.start>>
      /\ status'.answered =>
           \A kind \in {"outages", "possible"} :
             \A i \in 1..Len(query'[kind]) :
               ( /\ query'[kind][i][2] = 24
                 /\ query'[kind][i][1] * 60 <= query'.hour % 1440 )
               => ~status'.has_power ]_vars

\* C31 witness: in the last minute of the day the pass has sent the push of
\* the interval (20, 24) at once, and a status query of the queue made in
\* that minute has answered that the power is off.
C31_LateAndOffBeforeMidnight ==
  /\ now = 1439
  /\ poll.pc = "arm"
  /\ poll.current_time = now
  /\ execs[PollThread].pc = "check"
  /\ execs[PollThread].start = 20
  /\ execs[PollThread].end = 24
  /\ status.answered
  /\ query.hour = now
  /\ query.queue = execs[PollThread].queue
  /\ \E i \in 1..Len(query.outages) : query.outages[i] = <<20, 24>>
  /\ ~status.has_power

\* C38: asked for the same queue at the same time on the same stored
\* schedule that lists the queue, the single-address status query and the
\* batch status query answer the same has_power.
C38_SingleAndBatchAgree ==
  ( /\ status.answered
    /\ outage_status.answered
    /\ query.queue = outage_status.queue
    /\ query.hour = outage_status.hour
    /\ outage_status.schedule.present
    /\ ~outage_status.schedule.isnull
    /\ query.queue \in outage_status.schedule.data.keys
    /\ query.outages = StoredPeriods(outage_status.schedule.data, query.queue, FALSE)
    /\ query.possible = StoredPeriods(outage_status.schedule.data, query.queue, TRUE) )
  => status.has_power = outage_status.has_power

\* C37: in a batch status answer the entries of the merged guaranteed list,
\* which come first in upcoming_outages, are never flagged is_possible, also
\* when a possible interval of the queue has the same start and end.
C37_GuaranteedNeverFlaggedPossible ==
  status.answered =>
    \A i \in 1..Len(status.user_intervals) :
      /\ status.upcoming_outages[i].start_hour = status.user_intervals[i][1]
      /\ status.upcoming_outages[i].end_hour = status.user_intervals[i][2]
      /\ ~status.upcoming_outages[i].is_possible

\* C32: in a poll whose requests all succeed and in which some page changed,
\* the active outage rows of every region whose page did not change stay as
\* they were.
C32_UnchangedPageKeepsRows ==
  [][( /\ lastCall'.outcome = "poll"
       /\ \A rem \in Regions : lastCall'.fetch[rem].outcome = "ok"
       /\ lastCall'.result = "list" ) =>
       \A rem \in Regions :
         ( /\ rem \in DOMAIN page_hashes
           /\ page_hashes[rem] = get_content_hash(lastCall'.fetch[rem].content) )
         => {o \in active_outages' : o[1] = rem} = {o \in active_outages : o[1] = rem}]_vars

\* C33: when the walk over a page that was reported as changed fails, the
\* next run of parse_outages that is answered with the same page reports it
\* as changed again.
C33_FailedParseIsRetried ==
  [][( /\ lastCall' # lastCall
       /\ lastCall.outcome = "broken"
       /\ lastCall.changed
       /\ lastCall'.key = lastCall.key
       /\ lastCall'.content = lastCall.content
       /\ lastCall'.outcome = "ok" )
     => /\ lastCall'.changed
        /\ lastCall'.result = "list"]_vars

\* The hours h covered by a list of intervals: start <= h < end for one of them.
CoveredHours(list) ==
  {h \in MergeHours : \E i \in 1..Len(list) : list[i][1] <= h /\ h < list[i][2]}

\* C36: the list a merge returns covers the hours its input covers, and each
\* of its intervals starts at the start of an input interval and ends at the
\* end of an input interval.
C36_MergePreservesCoverage ==
  [][ /\ CoveredHours(merged') = CoveredHours(intervals')
      /\ \A i \in 1..Len(merged') :
           /\ \E k \in 1..Len(intervals') : intervals'[k][1] = merged'[i][1]
           /\ \E k \in 1..Len(intervals') : intervals'[k][2] = merged'[i][2] ]_vars

\* C36 witness: a call joined an interval with a shorter one that starts
\* after it and ends before it, the shorter one being last in the input.
C36_InnerIntervalAbsorbed ==
  /\ Len(intervals) >= 2
  /\ Len(merged) = 1
  /\ \E i, k \in 1..Len(intervals) :
       /\ i < k
       /\ intervals[i][1] < intervals[k][1]
       /\ intervals[k][1] < intervals[k][2]
       /\ intervals[k][2] < intervals[i][2]

\* C39: the steps of schedule_queue_notifications for a date change no timer
\* of another date, no timer of an announced window and no timer of an outage
\* record, and its job prefix matches none of the periodic jobs.
C39_OnlyTimersOfTheDate ==
  [][(poll.pc \in {"cancel", "arm"} /\ poll' # poll) =>
       /\ {j \in jobs' : j.date # poll.date} = {j \in jobs : j.date # poll.date}
       /\ annJobs' = annJobs
       /\ outageJobs' = outageJobs
       /\ \A id \in PeriodicJobIds : ~StartsWith(id, JobPrefix(poll.date))]_vars

\* C39 witness: the schedule of a date was parsed anew over a stored row and
\* all its timers are set again, while the store holds a timer of the next
\* day, a timer of an announced window and a timer of an outage record.
C39_OtherTimersInTheStore ==
  /\ poll.pc = "arm"
  /\ poll.ivs = {}
  /\ poll.existing
  /\ poll.outcome = "ok"
  /\ \E j \in jobs : j.date = poll.date
  /\ \E j \in jobs : j.date # poll.date
  /\ annJobs # {}
  /\ outageJobs # {}

\* C35: a paragraph hash is held as sent, in memory or in the table of sent
\* hashes, only when a delivered push has carried the paragraph.
C35_RecordedOnlyWhenDelivered ==
  /\ \A p \in last_sent_paragraphs : paragraph_pushes[p] >= 1
  /\ \A p \in ParagraphHashes :
       <<"paragraph", p>> \in sent_announcement_hashes => paragraph_pushes[p] >= 1

\* C34: with the scheduler running and the image of a date unchanged, every
\* interval of the stored schedule of the date whose start is still ahead
\* leads to a ledger row for (date, queue, start hour), whatever polls remove
\* and set its timer again in between.
C34_FutureIntervalGetsItsRow ==
  \A d \in Dates, k \in 1..Len(Cells) :
    ( /\ schedules[d].present
      /\ Cells[k] \in schedules[d].data.ivs
      /\ now < d * 1440 + Cells[k].start * 60 )
    ~> (queue_notifications[<<d, Cells[k].queue, Cells[k].start>>] >= 1)

\* C34 witness: the timer of an interval has fired in a pool thread, which has
\* written the ledger row, while the poll that follows set the timers of the
\* date once more.
C34_TimerFiredBetweenPolls ==
  /\ recovered
  /\ poll.pc = "arm"
  /\ poll.existing
  /\ \E th \in Workers :
       /\ execs[th].pc = "deliver"
       /\ queue_notifications[KeyOf(execs[th])] = 1
       /\ \E j \in jobs : j.date = execs[th].date /\ JobId(j) # JobId(execs[th])

====
